---- MODULE Spec2Model ----
(***************************************************************************)
(* A model of the two-pass static type checker                             *)
(* (server/src/transpiler/type-checker.ts).                                *)
(*                                                                         *)
(* An AST node is a record with a field t (the node kind); a node is       *)
(* identified by its path from the program node (a sequence of child       *)
(* numbers).  The checker state is a record s:                             *)
(*   log        the error log, a sequence of [msg, node]                   *)
(*   result     TypeChecker.result                                         *)
(*   st, co, nt the side-table: static types, coercion flags, name tables  *)
(*   firstPass, inExport   the checker's flags                             *)
(*   env        the name table a handler is called with: the chain of      *)
(*              scopes from the global table (env[1]) to the current one   *)
(*   fatal      set when the traversal throws an Error                     *)
(***************************************************************************)
EXTENDS Integers, Sequences, FiniteSets

VARIABLES prog,    \* the AST handed to typecheck (body of the program node)
          pc,      \* position of the driver
          idx,     \* number of top-level statements visited in this pass
          chk,     \* the checker state s
          runs,    \* number of visits of the whole program started so far
          builder, \* the fields of a BytecodeBufferBuilder
          frame    \* the running call of BytecodeBufferBuilder.load

typecheckVars == <<prog, pc, idx, chk, runs>>
builderVars == <<builder, frame>>
vars == <<prog, pc, idx, chk, runs, builder, frame>>

\* f with key k bound to v
Put(f, k, v) == [x \in DOMAIN f \cup {k} |-> IF x = k THEN v ELSE f[x]]

----------------------------------------------------------------------------
(* Static types (types.ts) *)

Integer  == [k |-> "integer"]
Float    == [k |-> "float"]
BooleanT == [k |-> "boolean"]
StringT  == [k |-> "string"]
Void     == [k |-> "void"]
Null     == [k |-> "null"]
Any      == [k |-> "any"]
objectType == [k |-> "object"]
Undef    == [k |-> "undefined"]     \* the JavaScript value undefined
NoReturn == [k |-> "noreturn"]      \* returnType() outside a function body

OptionalType(t) == [k |-> "optional", e |-> t]
ArrayType(t) == [k |-> "array", e |-> t]
FunctionType(r, ps) == [k |-> "function", r |-> r, p |-> ps]
InstanceType(n, sup) == [k |-> "instance", n |-> n, sup |-> sup]

ByteArrayClass == "Uint8Array"

isPrimitiveType(t) ==
  t.k \in {"integer", "float", "boolean", "string", "void", "null", "any"}

isNumeric(t) == t = Integer \/ t = Float

RECURSIVE isSubtype(_, _)
isSubtype(s, t) ==
  IF s = t THEN TRUE
  ELSE IF t.k = "optional" THEN s = Null \/ isSubtype(s, t.e)
  ELSE IF s.k = "function" /\ t.k = "function"
    THEN /\ Len(s.p) = Len(t.p)
         /\ isSubtype(s.r, t.r)
         /\ \A i \in 1..Len(s.p) : isSubtype(t.p[i], s.p[i])
  ELSE IF s.k = "instance"
    THEN t = objectType \/ isSubtype(s.sup, t)
  ELSE FALSE

isConsistent(s, t) == s = Any \/ t = Any \/ s = t

commonSuperType(s, t) ==
  IF isSubtype(s, t) THEN t
  ELSE IF isSubtype(t, s) THEN s
  ELSE IF isPrimitiveType(s) /\ isPrimitiveType(t) /\ s # Any /\ t # Any THEN Undef
  ELSE Any

actualElementType(t) ==
  IF t.k \in {"optional", "object", "instance", "array", "function"} THEN Any ELSE t

----------------------------------------------------------------------------
(* Name tables (names.ts) *)

NoInfo == [none |-> TRUE]

NameInfo(type) ==
  [type |-> type, isConst |-> FALSE, isFunction |-> FALSE,
   isTypeName |-> FALSE, isExported |-> FALSE]

EmptyTab == [n \in {} |-> NoInfo]

GlobalNameTable == [kind |-> "global", tab |-> EmptyTab, ret |-> NoReturn]
FunctionNameTable == [kind |-> "function", tab |-> EmptyTab, ret |-> Undef]
BlockNameTable == [kind |-> "block", tab |-> EmptyTab, ret |-> Undef]

makerFunction(env) == Append(env, FunctionNameTable)
makerBlock(env) == Append(env, BlockNameTable)

isGlobal(env) == env[Len(env)].kind = "global"

lookupInThis(env, name) ==
  IF name \in DOMAIN env[Len(env)].tab THEN env[Len(env)].tab[name] ELSE NoInfo

RECURSIVE lookupFrom(_, _, _)
lookupFrom(env, i, name) ==
  IF i = 0 THEN NoInfo
  ELSE IF name \in DOMAIN env[i].tab THEN env[i].tab[name]
  ELSE lookupFrom(env, i - 1, name)

lookup(env, name) == lookupFrom(env, Len(env), name)

\* NameTable.record: fails, changing nothing, when the name is already
\* recorded in this table.
canRecord(env, name) == name \notin DOMAIN env[Len(env)].tab

record(env, name, info) ==
  IF canRecord(env, name)
    THEN [env EXCEPT ![Len(env)].tab = Put(@, name, info)]
    ELSE env

\* the table of the innermost enclosing function, 0 if there is none
RECURSIVE functionTableOf(_, _)
functionTableOf(env, i) ==
  IF i = 0 THEN 0
  ELSE IF env[i].kind = "function" THEN i
  ELSE IF env[i].kind = "global" THEN 0
  ELSE functionTableOf(env, i - 1)

returnType(env) ==
  LET i == functionTableOf(env, Len(env)) IN
    IF i = 0 THEN NoReturn ELSE env[i].ret

setReturnType(env, t) ==
  LET i == functionTableOf(env, Len(env)) IN
    IF i = 0 THEN env ELSE [env EXCEPT ![i].ret = t]

----------------------------------------------------------------------------
(* The checker state and the side-table *)

EmptyTypes == [p \in {} |-> Undef]

\* wr is the history of the writes to the side-table: which node, which
\* type, whether it was the coercion flag, and in which pass
\* called is the history of the calls of the importer.
\* cc holds the fields of the ConstructorChecker while one is visiting a
\* constructor, Undef otherwise; validated is the history of the
\* ConstructorCheckers that have finished.
NewChecker(names, importer) ==
  [log |-> <<>>, result |-> Any, st |-> EmptyTypes, co |-> {}, nt |-> EmptyTypes,
   wr |-> <<>>, firstPass |-> TRUE, inExport |-> FALSE, fatal |-> FALSE, env |-> names,
   cls |-> [c \in {} |-> Undef],
   importer |-> importer, called |-> <<>>, propagated |-> FALSE,
   cc |-> Undef, validated |-> <<>>]

assert(s, test, msg, node) ==
  IF test THEN s ELSE [s EXCEPT !.log = Append(@, [msg |-> msg, node |-> node])]

setResult(s, t) == [s EXCEPT !.result = t]

\* names.addStaticType / addCoercionFlag / addNameTable
written(s, node, type, flag) ==
  Append(s.wr, [node |-> node, type |-> type, flag |-> flag, firstPass |-> s.firstPass])
namesAddStaticType(s, node, type) ==
  [s EXCEPT !.st = Put(@, node, type), !.wr = written(s, node, type, FALSE)]
namesAddCoercionFlag(s, node) ==
  [s EXCEPT !.co = @ \cup {node}, !.wr = written(s, node, Undef, TRUE)]
addNameTable(s, node, table) == [s EXCEPT !.nt = Put(@, node, table)]

getStaticType(s, node) == IF node \in DOMAIN s.st THEN s.st[node] ELSE Undef

addStaticTypeDropped(s, expr, type) == s

addStaticTypeInBothPasses(s, expr, type) == namesAddStaticType(s, expr, type)

addStaticType(s, expr, type) ==
  IF ~s.firstPass THEN namesAddStaticType(s, expr, type) ELSE s

addCoercionWithoutFlag(s, expr, type) ==
  IF ~s.firstPass THEN namesAddStaticType(s, expr, type) ELSE s

addCoercionAsAny(s, expr, type) ==
  IF ~s.firstPass THEN namesAddCoercionFlag(namesAddStaticType(s, expr, Any), expr) ELSE s

addCoercion(s, expr, type) ==
  IF ~s.firstPass THEN namesAddCoercionFlag(namesAddStaticType(s, expr, type), expr) ELSE s

addCoercionIfAny(s, expr, type) ==
  IF ~s.firstPass /\ type = Any THEN addCoercion(s, expr, type) ELSE s

addCoercionForBoolean(s, expr, type) ==
  IF ~s.firstPass /\ ~isPrimitiveType(type) THEN addCoercion(s, expr, type) ELSE s

isConsistentOnFirstPass(s, t1, t2) ==
  IF s.firstPass
    THEN (t1 = Any /\ t2.k = "array") \/ (t1.k = "array" /\ t2 = Any)
    ELSE FALSE

----------------------------------------------------------------------------
(* Classes (classes.ts): the methods and properties of an instance type    *)
(* are kept in s.cls, indexed by the class name.                           *)

NoMember == [none |-> TRUE]

findIn(members, i, name) ==
  LET RECURSIVE go(_)
      go(j) == IF j > Len(members) THEN NoMember
               ELSE IF members[j].name = name THEN [type |-> members[j].type, index |-> j - 1]
               ELSE go(j + 1)
  IN go(i)

findProperty(s, type, name) == findIn(s.cls[type.n].props, 1, name)
findMethod(s, type, name) == findIn(s.cls[type.n].methods, 1, name)
findConstructor(s, type) == findMethod(s, type, "constructor")
\* the number of unboxed properties, -1 when it is undefined
unboxedProperties(s, type) == s.cls[type.n].unboxed

lengthMethod == "length"

\* the class table holding the builtin byte-array class only
BuiltinClasses ==
  [c \in {ByteArrayClass} |->
     [props |-> <<>>,
      methods |-> <<[name |-> "constructor", type |-> FunctionType(Void, <<Integer, Integer>>)]>>,
      unboxed |-> -1, leafType |-> TRUE]]

----------------------------------------------------------------------------
(* The visitor.  visit(node, path, s) is NodeVisitor.visit(node, names)    *)
(* with names = s.env; it returns the checker state after the visit.       *)

RECURSIVE visit(_, _, _)

None == [t |-> "None"]

\* visits nodes[i..] in order; the path of nodes[i] is path \o <<base + i>>
RECURSIVE visitAll(_, _, _, _, _)
visitAll(nodes, i, base, path, s) ==
  IF i > Len(nodes) THEN s
  ELSE visitAll(nodes, i + 1, base, path, visit(nodes[i], path \o <<base + i>>, s))

nullLiteral(node, path, s) == addStaticType(setResult(s, Null), path, Null)
stringLiteral(node, path, s) == addStaticType(setResult(s, StringT), path, StringT)
booleanLiteral(node, path, s) == addStaticType(setResult(s, BooleanT), path, BooleanT)

IntegerChars ==
  {"0", "1", "2", "3", "4", "5", "6", "7", "8", "9", "A", "B", "C", "D", "E", "F",
   "a", "b", "c", "d", "e", "f", "X", "x"}
FloatChars == {"0", "1", "2", "3", "4", "5", "6", "7", "8", "9", ".", "e", "+", "-"}

\* /^[cs]+$/.test(raw)
matches(raw, cs) == Len(raw) > 0 /\ \A i \in 1..Len(raw) : raw[i] \in cs

numericLiteral(node, path, s) ==
  LET s1 == IF matches(node.raw, IntegerChars) THEN setResult(s, Integer)
            ELSE IF matches(node.raw, FloatChars) THEN setResult(s, Float)
            ELSE assert(s, FALSE, "bad numeric literal", path)
  IN addStaticType(s1, path, s1.result)

\* an identifier of an optional type is given the element type
identifierUnwrapped(node, path, s) ==
  IF node.name = "undefined" THEN addStaticType(setResult(s, Null), path, Null)
  ELSE
    LET nameInfo == lookup(s.env, node.name)
        s1 == IF nameInfo # NoInfo
                THEN assert(s, ~nameInfo.isTypeName, "bad use of type name", path)
                ELSE assert(s, s.firstPass, "unknown name", path)
        type == IF nameInfo # NoInfo /\ nameInfo.type.k = "optional"
                  THEN nameInfo.type.e ELSE nameInfo.type
    IN IF nameInfo # NoInfo /\ ~nameInfo.isTypeName
         THEN addStaticType(setResult(s1, type), path, type)
         ELSE addStaticType(setResult(s1, Any), path, Any)

identifier(node, path, s) ==
  IF node.name = "undefined" THEN addStaticType(setResult(s, Null), path, Null)
  ELSE
    LET nameInfo == lookup(s.env, node.name)
        s1 == IF nameInfo # NoInfo
                THEN assert(s, ~nameInfo.isTypeName, "bad use of type name", path)
                ELSE assert(s, s.firstPass, "unknown name", path)
    IN IF nameInfo # NoInfo /\ ~nameInfo.isTypeName
         THEN addStaticType(setResult(s1, nameInfo.type), path, nameInfo.type)
         ELSE addStaticType(setResult(s1, Any), path, Any)

thisExpression(node, path, s) ==
  LET nameInfo == lookup(s.env, "this") IN
    IF nameInfo # NoInfo
      THEN setResult(assert(s, nameInfo.type.k = "instance", "the type of 'this' is broken", path),
                     nameInfo.type)
      ELSE setResult(assert(s, s.firstPass, "'this' is not available here", path), Any)

superExpression(node, path, s) ==
  LET nameInfo == lookup(s.env, "this") IN
    IF nameInfo # NoInfo /\ nameInfo.type.k = "instance"
      THEN setResult(s, nameInfo.type.sup)
      ELSE setResult(assert(s, s.firstPass, "'super' is not available here", path), Any)

----------------------------------------------------------------------------
(* Type annotations *)

tsTypeReference(node, path, s) ==
  IF node.name = "float" THEN setResult(s, Float)
  ELSE IF node.name = "integer" THEN setResult(s, Integer)
  ELSE
    LET nameInfo == lookup(s.env, node.name)
        s1 == assert(s, nameInfo # NoInfo, "unknown type name", path)
    IN IF nameInfo = NoInfo THEN setResult(s1, Any)
       ELSE IF nameInfo.isTypeName THEN setResult(s1, nameInfo.type)
       ELSE setResult(assert(s1, FALSE, "not a type name", path), Any)

tsArrayType(node, path, s) ==
  LET s1 == visit(node.elementType, path \o <<1>>, s) IN
    setResult(s1, ArrayType(s1.result))

\* the parameter types of a function type, collected left to right
RECURSIVE tsFunctionParams(_, _, _, _)
tsFunctionParams(params, i, path, r) ==
  IF i > Len(params) THEN r
  ELSE IF params[i] = None
    THEN tsFunctionParams(params, i + 1, path, [r EXCEPT !.types = Append(@, Any)])
  ELSE LET s1 == visit(params[i], path \o <<1 + i>>, r.s) IN
         tsFunctionParams(params, i + 1, path, [s |-> s1, types |-> Append(r.types, s1.result)])

tsFunctionType(node, path, s) ==
  LET ps == tsFunctionParams(node.parameters, 1, path, [s |-> s, types |-> <<>>])
      s1 == IF node.typeAnnotation # None THEN visit(node.typeAnnotation, path \o <<1>>, ps.s)
            ELSE ps.s
      ret == IF node.typeAnnotation # None THEN s1.result ELSE Any
  IN setResult(s1, FunctionType(ret, ps.types))

\* the check that the option is not any is missing
tsUnionTypeOfAny(node, path, s) ==
  LET s0 == assert(s, Len(node.types) = 2,
                   "only optional types are supported -- the number of options must be 2", path)
      s1 == visit(node.types[1], path \o <<1>>, s0)
      t1 == s1.result
      s2 == visit(node.types[2], path \o <<2>>, s1)
      t2 == s2.result
      s3 == assert(s2, t1 = Null \/ t2 = Null,
                   "only optional types are supported -- at least one option must be undefined", path)
      s4 == assert(s3, t1 # Null \/ t2 # Null,
                   "only optional types are supported -- at least one option must be a non-undefined type", path)
      u1 == IF t1 = Null THEN t2 ELSE t1
      s6 == assert(s4, u1.k # "optional", "fail to construct an optional type -- already optional", path)
  IN setResult(s6, OptionalType(u1))

tsUnionType(node, path, s) ==
  LET s0 == assert(s, Len(node.types) = 2,
                   "only optional types are supported -- the number of options must be 2", path)
      s1 == visit(node.types[1], path \o <<1>>, s0)
      t1 == s1.result
      s2 == visit(node.types[2], path \o <<2>>, s1)
      t2 == s2.result
      s3 == assert(s2, t1 = Null \/ t2 = Null,
                   "only optional types are supported -- at least one option must be undefined", path)
      s4 == assert(s3, t1 # Null \/ t2 # Null,
                   "only optional types are supported -- at least one option must be a non-undefined type", path)
      u1 == IF t1 = Null THEN t2 ELSE t1
      s5 == assert(s4, u1 # Any, "fail to construct an optional type -- any is already optional", path)
      s6 == assert(s5, u1.k # "optional", "fail to construct an optional type -- already optional", path)
  IN setResult(s6, OptionalType(u1))

----------------------------------------------------------------------------
(* Expressions *)

invalidOperandMessage == "invalid operand"
invalidOperandsMessage == "invalid operands"
notAssignable == "is not assignable to type"

\* an lvalue check that knows constants only
assertLvalueOfConst(node, path, s) ==
  IF node.t = "Identifier" /\ lookup(s.env, node.name) # NoInfo
    THEN assert(s, ~lookup(s.env, node.name).isConst, "assignment to constant variable", path)
    ELSE s

assertLvalue(node, path, s) ==
  IF node.t = "Identifier" THEN
    LET info == lookup(s.env, node.name) IN
      IF info # NoInfo
        THEN assert(assert(s, ~info.isConst, "assignment to constant variable", path),
                    ~info.isFunction, "assignment to top-level function", path)
        ELSE s
  ELSE IF node.t = "MemberExpression" THEN s
  ELSE assert(s, FALSE, "invalid left-hand side in assignment", path)

unaryExpression(node, path, s) ==
  LET arg == path \o <<1>>
      s1 == visit(node.argument, arg, s)
      s2 == addCoercionIfAny(s1, arg, s1.result)
      op == node.operator
  IN IF op \in {"-", "+"}
       THEN assert(s2, isNumeric(s2.result) \/ s2.result = Any, invalidOperandMessage, path)
     ELSE IF op = "!"
       THEN setResult(addCoercionForBoolean(s2, arg, s2.result), BooleanT)
     ELSE IF op = "~"
       THEN setResult(assert(s2, s2.result = Integer \/ s2.result = Any, invalidOperandMessage, path),
                      Integer)
     ELSE IF op = "typeof"
       THEN setResult(namesAddStaticType(s2, arg, s2.result), StringT)
     ELSE assert(s2, FALSE, "not supported operator", path)

updateExpression(node, path, s) ==
  LET arg == path \o <<1>>
      s1 == visit(node.argument, arg, assertLvalue(node.argument, arg, s))
      s2 == assert(s1, isNumeric(s1.result) \/ s1.result = Any, invalidOperandMessage, path)
  IN addCoercion(s2, arg, s2.result)

instanceofExpression(node, path, s) ==
  LET s1 == visit(node.left, path \o <<1>>, s)
      leftType == s1.result
      s2 == assert(s1, ~isPrimitiveType(leftType),
                   "primitive types cannot be used in instanceof", path \o <<1>>)
  IN IF node.right.t = "Identifier" THEN
       LET typeName == node.right.name
           info == lookup(s2.env, typeName)
           isClass == info # NoInfo /\ info.isTypeName /\ info.type.k = "instance"
           type == IF isClass THEN info.type
                   ELSE IF typeName = "string" THEN StringT
                   ELSE IF typeName = "Array" THEN ArrayType(Any)
                   ELSE Any
           s3 == assert(s2, isClass \/ typeName \in {"string", "Array"},
                        "invalid type name", path \o <<2>>)
       IN setResult(addStaticType(s3, path \o <<2>>, type), BooleanT)
     ELSE assert(s2, FALSE, "syntax error", path \o <<2>>)

binaryExpression(node, path, s) ==
  IF node.operator = "instanceof" THEN instanceofExpression(node, path, s)
  ELSE
  LET op == node.operator
      lp == path \o <<1>>
      rp == path \o <<2>>
      s1 == visit(node.left, lp, s)
      left_type == s1.result
      s2 == visit(node.right, rp, s1)
      right_type == s2.result
      both == addCoercion(addCoercion(s2, lp, left_type), rp, right_type)
  IN IF op \in {"==", "!=", "===", "!=="} THEN
       setResult(
         IF left_type = Any \/ right_type = Any THEN both
         ELSE IF left_type = BooleanT \/ right_type = BooleanT
                 \/ left_type = StringT \/ right_type = StringT
           THEN addCoercion(addCoercion(
                  assert(s2, left_type = right_type, "must be compared with the same type", path),
                  lp, left_type), rp, right_type)
         ELSE assert(s2, isSubtype(left_type, right_type) \/ isSubtype(right_type, left_type),
                     invalidOperandsMessage, path),
         BooleanT)
     ELSE IF op \in {"<", "<=", ">", ">="} THEN
       setResult(
         IF (left_type = Any \/ right_type = Any) \/ (left_type = StringT /\ right_type = StringT)
           THEN both
           ELSE assert(s2, isNumeric(left_type) /\ isNumeric(right_type), invalidOperandsMessage, path),
         BooleanT)
     ELSE IF op \in {"+", "-", "*", "/", "**"} THEN
       LET s3 == assert(s2, (isNumeric(left_type) \/ left_type = Any)
                            /\ (isNumeric(right_type) \/ right_type = Any),
                        invalidOperandsMessage, path)
       IN IF left_type = Any \/ right_type = Any
            THEN setResult(addCoercion(addCoercion(s3, lp, left_type), rp, right_type), Any)
          ELSE IF left_type = Float \/ right_type = Float
            THEN setResult(IF op = "**" THEN addStaticType(s3, path, Float) ELSE s3, Float)
          ELSE setResult(IF op = "**" THEN addStaticType(s3, path, Integer) ELSE s3, Integer)
     ELSE IF op = "%" THEN
       LET s3 == assert(s2, (left_type = Integer \/ left_type = Any)
                            /\ (right_type = Integer \/ right_type = Any),
                        "invalid operands to %.  They must be integer or any", path)
       IN IF left_type = Any \/ right_type = Any
            THEN setResult(addCoercion(addCoercion(s3, lp, left_type), rp, right_type), Any)
            ELSE setResult(s3, Integer)
     ELSE IF op \in {"|", "^", "&", "<<", ">>", ">>>"} THEN
       setResult(assert(s2, left_type = Integer /\ right_type = Integer, invalidOperandsMessage, path),
                 Integer)
     ELSE setResult(assert(s2, FALSE, "not supported operator", path), BooleanT)

logicalExpression(node, path, s) ==
  LET lp == path \o <<1>>
      rp == path \o <<2>>
      s1 == visit(node.left, lp, s)
      left_type == s1.result
      s2 == visit(node.right, rp, s1)
      right_type == s2.result
  IN IF node.operator \in {"||", "&&"}
       THEN setResult(addCoercionForBoolean(addCoercionForBoolean(s2, lp, left_type), rp, right_type),
                      BooleanT)
       ELSE assert(s2, FALSE, "not supported operator", path)

conditionalExpression(node, path, s) ==
  LET s1 == visit(node.test, path \o <<0>>, s)
      s2 == addCoercionForBoolean(s1, path \o <<0>>, s1.result)
      s3 == visit(node.consequent, path \o <<1>>, s2)
      then_type == s3.result
      s4 == visit(node.alternate, path \o <<2>>, s3)
      else_type == s4.result
      result_type == commonSuperType(then_type, else_type)
  IN IF result_type = Undef
       THEN setResult(assert(s4, FALSE, "no common super type", path), then_type)
       ELSE setResult(s4, result_type)

\* checkMemberExpr and checkMethodExpr return the checker state and the
\* boolean the method returns.
checkMemberExpr(node, readonly, path, s) ==
  LET op == path \o <<1>>
      pp == path \o <<2>>
  IN IF node.computed THEN
       LET s1 == visit(node.property, pp, s)
           s2 == assert(s1, s1.firstPass \/ s1.result = Integer \/ s1.result = Any,
                        "an array index must be an integer", pp)
           s3 == addCoercionIfAny(s2, pp, s2.result)
           s4 == visit(node.object, op, s3)
           ot == s4.result
           s5 == addStaticType(s4, op, ot)
       IN IF ot.k = "array"
            THEN [s |-> addStaticType(setResult(s5, ot.e), path, ot.e), ret |-> TRUE]
          ELSE IF ot.k = "instance" /\ ot.n = ByteArrayClass
            THEN [s |-> setResult(addStaticType(addStaticType(s5, op, ot), path, Integer), Integer),
                  ret |-> TRUE]
          ELSE [s |-> addStaticType(
                        setResult(assert(s5, s5.firstPass \/ ot = Any,
                                         "an element access to a non-array", op), Any),
                        path, Any),
                ret |-> ~s5.firstPass]
     ELSE IF node.property.t = "Identifier" THEN
       LET propertyName == node.property.name
           s1 == visit(node.object, op, s)
           type == s1.result
           s2 == addStaticType(s1, op, type)
           unknown == [s |-> assert(setResult(s2, Any), FALSE, "unknown property name", pp),
                       ret |-> TRUE]
           length == [s |-> setResult(assert(s2, readonly, "cannot change .length", pp), Integer),
                      ret |-> FALSE]
       IN IF type.k = "instance" THEN
            LET typeAndIndex == findProperty(s2, type, propertyName) IN
              IF typeAndIndex # NoMember
                THEN [s |-> setResult(s2, typeAndIndex.type),
                      ret |-> unboxedProperties(s2, type) <= typeAndIndex.index]
              ELSE IF propertyName = lengthMethod /\ type.n = ByteArrayClass THEN length
              ELSE IF s2.firstPass THEN [s |-> setResult(s2, Any), ret |-> TRUE]
              ELSE unknown
          ELSE IF type.k = "array" THEN
            IF propertyName = lengthMethod THEN length ELSE unknown
          ELSE IF type = Any THEN [s |-> setResult(s2, Any), ret |-> TRUE]
          ELSE unknown
     ELSE [s |-> assert(s, FALSE, "a wrong property name", pp), ret |-> TRUE]

memberExpression(node, path, s) == checkMemberExpr(node, TRUE, path, s).s

checkMethodExpr(node, path, s) ==
  IF node.computed \/ node.property.t # "Identifier" THEN [s |-> s, ret |-> FALSE]
  ELSE
    LET op == path \o <<1>>
        s1 == visit(node.object, op, s)
        type == s1.result
        s2 == addStaticType(s1, op, type)
    IN IF type.k = "instance" /\ findMethod(s2, type, node.property.name) # NoMember
         THEN [s |-> setResult(s2, findMethod(s2, type, node.property.name).type), ret |-> TRUE]
       ELSE IF type.k = "array" THEN [s |-> s2, ret |-> FALSE]
       ELSE [s |-> setResult(s2, Any), ret |-> s2.firstPass]

memberAssignmentExpression(node, path, s) ==
  LET lp == path \o <<1>>
      rp == path \o <<2>>
      leftNode == node.left
      op == node.operator
      \* c is what checkMemberExpr returned, s1 the state after the visit of
      \* the right operand
      store(c, s1) ==
        LET elementType == c.s.result
            rightType == s1.result
            actualType == IF leftNode.computed THEN actualElementType(elementType)
                          ELSE IF c.ret
                            THEN (IF isPrimitiveType(elementType) THEN Any ELSE elementType)
                          ELSE elementType
            both(x) == addCoercion(addCoercion(x, lp, actualType), rp, rightType)
        IN setResult(IF op = "="
                       THEN IF isConsistent(rightType, elementType) THEN both(s1)
                            ELSE both(assert(s1, isSubtype(rightType, elementType),
                                             "is not assignable to element type", path))
                     ELSE IF op \in {"+=", "-=", "*=", "/="}
                       THEN both(assert(s1, (isNumeric(elementType) \/ elementType = Any)
                                            /\ (isNumeric(rightType) \/ rightType = Any),
                                        invalidOperandsMessage, path))
                     ELSE assert(s1, FALSE, "not supported operator", path),
                     actualType)
      checked(c) ==
        IF ~c.ret /\ leftNode.computed
          THEN setResult(visit(node.right, rp, c.s), Any)
          ELSE store(c, visit(node.right, rp, c.s))
  IN checked(checkMemberExpr(leftNode, FALSE, lp, assertLvalue(leftNode, lp, s)))

\* the initialised flags of a ConstructorChecker, in insertion order
markInitialized(properties, name) ==
  IF \E i \in 1..Len(properties) : properties[i].name = name
    THEN [i \in 1..Len(properties) |->
            IF properties[i].name = name THEN [properties[i] EXCEPT !.flag = TRUE]
            ELSE properties[i]]
    ELSE Append(properties, [name |-> name, flag |-> TRUE])

\* ConstructorChecker.memberAssignmentExpression; the plain one when no
\* ConstructorChecker is visiting
ccMemberAssignmentExpression(node, path, s) ==
  LET marked(s1) ==
        IF s.cc # Undef /\ s1.cc # Undef /\ s1.cc.toplevel = 1
           /\ node.operator = "=" /\ ~node.left.computed
           /\ node.left.object.t = "ThisExpression" /\ node.left.property.t = "Identifier"
          THEN [s1 EXCEPT !.cc.properties = markInitialized(@, node.left.property.name)]
          ELSE s1
  IN marked(memberAssignmentExpression(node, path, s))

assignmentExpression(node, path, s) ==
  IF node.left.t = "MemberExpression" THEN ccMemberAssignmentExpression(node, path, s)
  ELSE
    LET lp == path \o <<1>>
        rp == path \o <<2>>
        s1 == visit(node.left, lp, assertLvalue(node.left, lp, s))
        left_type == s1.result
        s2 == visit(node.right, rp, s1)
        right_type == s2.result
        op == node.operator
        both(x) == addCoercion(addCoercion(x, lp, left_type), rp, right_type)
        s3 == IF op = "="
                THEN IF isConsistent(right_type, left_type)
                        \/ isConsistentOnFirstPass(s2, right_type, left_type)
                       THEN both(s2)
                       ELSE assert(s2, isSubtype(right_type, left_type), notAssignable, path)
              ELSE IF op \in {"+=", "-=", "*=", "/="}
                THEN LET x == assert(s2, (isNumeric(left_type) \/ left_type = Any)
                                         /\ (isNumeric(right_type) \/ right_type = Any),
                                     invalidOperandsMessage, path)
                     IN IF left_type = Any \/ right_type = Any THEN both(x) ELSE x
              ELSE IF op = "%="
                THEN LET x == assert(s2, (left_type = Integer \/ left_type = Any)
                                         /\ (right_type = Integer \/ right_type = Any),
                                     "invalid operands to %=.  They must be integer or any", path)
                     IN IF left_type = Any \/ right_type = Any THEN both(x) ELSE x
              ELSE IF op \in {"|=", "^=", "&=", "%=", "<<=", ">>="}
                THEN assert(s2, left_type = Integer /\ right_type = Integer,
                            invalidOperandsMessage, path)
              ELSE assert(s2, FALSE, "not supported operator", path)
    IN setResult(s3, left_type)

callExpressionArg(arg, argPath, paramType, s) ==
  LET s1 == visit(arg, argPath, s)
      argType == s1.result
  IN IF isConsistent(argType, paramType) \/ isConsistentOnFirstPass(s1, argType, paramType)
       THEN addCoercion(s1, argPath, argType)
       ELSE assert(s1, isSubtype(argType, paramType), "passing an incompatible argument", argPath)

\* the loop over the arguments of a call, args[i] against paramTypes[i]
RECURSIVE callExpressionArgs(_, _, _, _, _)
callExpressionArgs(args, i, paramTypes, path, s) ==
  IF i > Len(args) THEN s
  ELSE callExpressionArgs(args, i + 1, paramTypes, path,
                          callExpressionArg(args[i], path \o <<i>>, paramTypes[i], s))

superConstructorCall(type, node, path, s) ==
  LET args == node.arguments IN
    IF type.k = "instance" THEN
      LET cons == findConstructor(s, type)
          consType == IF cons = NoMember THEN FunctionType(Void, <<>>) ELSE cons.type
          s1 == IF Len(args) # Len(consType.p)
                  THEN assert(s, FALSE, "wrong number of arguments", path)
                  ELSE callExpressionArgs(args, 1, consType.p, path, s)
      IN setResult(addStaticType(s1, path \o <<0>>, consType), Void)
    ELSE assert(s, FALSE, "fatal: bad super", path)

\* ConstructorChecker.superConstructorCall; the plain one when no
\* ConstructorChecker is visiting
ccSuperConstructorCall(type, node, path, s) ==
  IF s.cc # Undef /\ s.cc.toplevel = 1
    THEN superConstructorCall(type, node, path,
           [assert(s, ~s.cc.hasSuperCall, "cannot call super() here", path)
              EXCEPT !.cc.hasSuperCall = TRUE])
    ELSE superConstructorCall(type, node, path, s)

callExpression(node, path, s) ==
  LET cp == path \o <<0>>
      \* s1 is the state after the visit of the callee
      called(s1) ==
        IF node.callee.t = "Super" THEN ccSuperConstructorCall(s1.result, node, path, s1)
        ELSE IF s1.result.k = "function" THEN
          LET func_type == s1.result IN
            setResult(addStaticType(IF Len(node.arguments) # Len(func_type.p)
                                      THEN assert(s1, FALSE, "wrong number of arguments", path)
                                      ELSE callExpressionArgs(node.arguments, 1, func_type.p,
                                                              path, s1),
                                    cp, func_type),
                      func_type.r)
        ELSE setResult(assert(s1, s1.firstPass, "the callee is not a function", cp), Any)
      callee(m) == called(IF m.ret THEN m.s ELSE visit(node.callee, cp, m.s))
  IN callee(IF node.callee.t = "MemberExpression" THEN checkMethodExpr(node.callee, cp, s)
            ELSE [s |-> s, ret |-> FALSE])

\* the types of the type parameters of a new expression, left to right
RECURSIVE newTypeParams(_, _, _, _)
newTypeParams(params, i, path, r) ==
  IF i > Len(params) THEN r
  ELSE LET s1 == visit(params[i], path \o <<0, i>>, r.s) IN
         newTypeParams(params, i + 1, path, [s |-> s1, types |-> Append(r.types, s1.result)])

newArrayExpression(node, path, s) ==
  LET tp == IF node.typeParameters = None THEN [s |-> s, types |-> <<>>]
            ELSE newTypeParams(node.typeParameters.params, 1, path, [s |-> s, types |-> <<>>])
      s1 == IF node.typeParameters = None THEN tp.s
            ELSE assert(tp.s, Len(tp.types) = 1, "wrong numberr of type parameters", path)
      etype == IF node.typeParameters # None /\ Len(tp.types) = 1 THEN tp.types[1] ELSE Any
      args == node.arguments
      ok == Len(args) = 2 \/ (Len(args) = 1 /\ etype \in {Integer, Float, BooleanT, Any})
      s2 == assert(s1, ok, "wrong number of arguments", path)
      s3 == IF ok THEN callExpressionArg(args[1], path \o <<1>>, Integer, s2) ELSE s2
      s4 == IF ok /\ Len(args) = 2 THEN callExpressionArg(args[2], path \o <<2>>, etype, s3) ELSE s3
      atype == ArrayType(etype)
  IN setResult(addStaticType(s4, path, atype), atype)

newObjectExpression(node, type, path, s) ==
  LET args == node.arguments
      cons == findConstructor(s, type)
      consType == IF cons = NoMember THEN FunctionType(Void, <<>>) ELSE cons.type
      s1 == IF Len(args) # Len(consType.p)
              THEN assert(s, FALSE, "wrong number of arguments", path)
              ELSE callExpressionArgs(args, 1, consType.p, path, s)
  IN setResult(addStaticType(s1, path, type), type)

newExpression(node, path, s) ==
  IF node.callee.t = "Identifier" /\ node.callee.name = "Array"
    THEN newArrayExpression(node, path, s)
  ELSE IF node.callee.t = "Identifier"
          /\ lookup(s.env, node.callee.name) # NoInfo
          /\ lookup(s.env, node.callee.name).isTypeName
          /\ lookup(s.env, node.callee.name).type.k = "instance"
    THEN newObjectExpression(node, lookup(s.env, node.callee.name).type, path, s)
  ELSE assert(s, FALSE, "bad type name for new", path)

\* the loop over the elements of an array expression; r.etype is Undef
\* until the first element has been visited
RECURSIVE arrayElements(_, _, _, _)
arrayElements(elements, i, path, r) ==
  IF i > Len(elements) THEN r
  ELSE LET s1 == visit(elements[i], path \o <<i>>, r.s)
           s2 == addStaticType(s1, path \o <<i>>, s1.result)
           t == commonSuperType(r.etype, s1.result)
           etype == IF r.etype = Undef THEN s1.result
                    ELSE IF t = Undef THEN Any ELSE t
       IN arrayElements(elements, i + 1, path, [s |-> s2, etype |-> etype])

arrayExpression(node, path, s) ==
  LET r == arrayElements(node.elements, 1, path, [s |-> s, etype |-> Undef])
      atype == ArrayType(IF r.etype = Undef THEN Any ELSE r.etype)
  IN setResult(addStaticType(r.s, path, atype), atype)

----------------------------------------------------------------------------
(* Functions *)

throw(s) == [s EXCEPT !.fatal = TRUE]

\* the table a handler returns to its caller: the first n scopes of s.env
leave(s, n) == [s EXCEPT !.env = SubSeq(@, 1, n)]

\* FunctionNameTable.isFreeInfo: a name of another global environment.  The
\* global table of this model has no parent.
isFreeInfo(env, info) == FALSE

\* records the parameters in s.env (the function's table); returns the
\* checker state and the parameter types
RECURSIVE functionParameters(_, _, _, _)
functionParameters(params, i, path, r) ==
  IF i > Len(params) THEN r
  ELSE
    LET typeAnno == params[i].typeAnnotation
        s1 == IF typeAnno # None THEN visit(typeAnno, path \o <<2, i>>, r.s) ELSE r.s
        varType == IF typeAnno # None THEN s1.result ELSE Any
        varName == params[i].name
        s2 == assert(s1, canRecord(s1.env, varName), "duplicated parameter name", path)
        s3 == [s2 EXCEPT !.env = record(@, varName, NameInfo(varType))]
    IN functionParameters(params, i + 1, path, [s |-> s3, types |-> Append(r.types, varType)])

\* a return statement that sets the return type whatever it finds
returnStatementArgLast(path, argument, argPath, s) ==
  LET s0 == assert(s, returnType(s.env) # NoReturn, "return must be in a function body", path)
      typed(s1) == [s1 EXCEPT !.env = setReturnType(@, s1.result)]
  IN IF argument # None THEN typed(visit(argument, argPath, s0))
     ELSE [s0 EXCEPT !.env = setReturnType(@, Void)]

returnStatementArg(path, argument, argPath, s) ==
  LET rtype == returnType(s.env)
      s0 == assert(s, rtype # NoReturn, "return must be in a function body", path)
      unset == rtype = Undef \/ rtype = NoReturn     \* rtype == undefined
  IN IF argument # None THEN
       LET s1 == visit(argument, argPath, s0) IN
         IF unset THEN [s1 EXCEPT !.env = setReturnType(@, s1.result)]
         ELSE IF isConsistent(s1.result, rtype) THEN addCoercion(s1, argPath, s1.result)
         ELSE assert(s1, isSubtype(s1.result, rtype), "does not match type", path)
     ELSE IF unset THEN [s0 EXCEPT !.env = setReturnType(@, Void)]
     ELSE assert(s0, rtype = Void, "a non-void function must return a value", path)

returnStatement(node, path, s) == returnStatementArg(path, node.argument, path \o <<1>>, s)

\* the end of functionDeclarationPass1: a new declaration is recorded, a
\* repeated one is compared with the recorded type
\* a repeated declaration replaces the recorded type
recordFunctionAgain(s, name, info, ftype, path) ==
  IF info = NoInfo
    THEN [s EXCEPT !.env = record(@, name,
                                  [NameInfo(ftype) EXCEPT !.isFunction = TRUE,
                                                          !.isExported = s.inExport])]
    ELSE [assert(s, isSubtype(ftype, info.type),
                 "function is declared again with a different type", path)
            EXCEPT !.env[Len(s.env)].tab[name].type = ftype]

recordFunction(s, name, info, ftype, path) ==
  IF info = NoInfo
    THEN [s EXCEPT !.env = record(@, name,
                                  [NameInfo(ftype) EXCEPT !.isFunction = TRUE,
                                                          !.isExported = s.inExport])]
    ELSE assert(s, isSubtype(ftype, info.type),
                "function is declared again with a different type", path)

\* the table of a function: a method or constructor records this in it
funcEnv(node, names) ==
  IF node.t = "ClassMethod" /\ lookup(names, "this") # NoInfo
    THEN record(makerFunction(names), "this", NameInfo(lookup(names, "this").type))
    ELSE makerFunction(names)

\* nodeId is the declared name, or None
functionDeclarationPass1(node, nodeId, path, s) ==
  LET names == s.env
      depth == Len(names)
      typeAnno == node.returnType
      info == IF nodeId # None THEN lookup(names, nodeId.name) ELSE NoInfo
      \* ps is what functionParameters returned, s3 the state after the body
      declared(ps, s3) ==
        LET rtype == IF returnType(s3.env) = Undef THEN Void ELSE returnType(s3.env)
            ftype == FunctionType(rtype, ps.types)
            recorded(s4) ==
              IF nodeId = None THEN s4 ELSE recordFunction(s4, nodeId.name, info, ftype, path)
        IN recorded(leave(namesAddStaticType(s3, path, ftype), depth))
      visited(s2) ==
        IF node.body.t = "BlockStatement" THEN visit(node.body, path \o <<1>>, s2)
        ELSE returnStatementArg(path, node.body, path \o <<1>>, s2)
      checked(ps, s1) ==
        declared(ps, visited(assert(s1, info = NoInfo \/ (isFreeInfo(s1.env, info) /\ ~info.isConst),
                                    "function has been already declared", path)))
      annotated(ps, a) == [a EXCEPT !.env = setReturnType(ps.s.env, a.result)]
      parameters(ps) ==
        checked(ps, IF typeAnno # None
                      THEN annotated(ps, visit(typeAnno, path \o <<0>>, [ps.s EXCEPT !.env = names]))
                      ELSE ps.s)
  IN parameters(functionParameters(node.params, 1, path,
                                   [s |-> [s EXCEPT !.env = funcEnv(node, names)],
                                    types |-> <<>>]))

functionDeclarationPass2(node, path, s) ==
  LET depth == Len(s.env)
      attachedTable(s1) == leave(addNameTable(s1, path, s1.env[depth + 1]), depth)
      parameters(ps) ==
        LET ftype == getStaticType(ps.s, path) IN
          IF ftype.k # "function" THEN throw(leave(ps.s, depth))
          ELSE attachedTable(visit(node.body, path \o <<1>>,
                                   [ps.s EXCEPT !.env = setReturnType(@, ftype.r)]))
  IN parameters(functionParameters(node.params, 1, path,
                                   [s |-> [s EXCEPT !.env = funcEnv(node, @)], types |-> <<>>]))

arrowFunctionExpression(node, path, s) ==
  LET typed(s1) ==
        IF s1.fatal THEN s1
        ELSE IF getStaticType(s1, path).k # "function" THEN throw(s1)
        ELSE setResult(s1, getStaticType(s1, path))
  IN typed(IF s.firstPass THEN functionDeclarationPass1(node, None, path, s)
           ELSE functionDeclarationPass2(node, path, s))

functionDeclaration(node, path, s) ==
  LET s1 == assert(s, isGlobal(s.env), "a nested function is not available", path) IN
    IF s1.firstPass THEN functionDeclarationPass1(node, node.id, path, s1)
    ELSE functionDeclarationPass2(node, path, s1)

----------------------------------------------------------------------------
(* Statements *)

whileStatement(node, path, s) ==
  LET s1 == visit(node.test, path \o <<0>>, s) IN
    visit(node.body, path \o <<1>>, addCoercionForBoolean(s1, path \o <<0>>, s1.result))

ifStatement(node, path, s) ==
  LET s1 == visit(node.test, path \o <<0>>, s)
      s2 == visit(node.consequent, path \o <<1>>, addCoercionForBoolean(s1, path \o <<0>>, s1.result))
  IN IF node.alternate # None THEN visit(node.alternate, path \o <<2>>, s2) ELSE s2

forStatement(node, path, s) ==
  LET depth == Len(s.env)
      s0 == [s EXCEPT !.env = makerBlock(@)]
      s1 == IF node.init # None THEN visit(node.init, path \o <<1>>, s0) ELSE s0
      s2 == IF node.test # None
              THEN LET x == visit(node.test, path \o <<0>>, s1)
                   IN addCoercionForBoolean(x, path \o <<0>>, x.result)
              ELSE s1
      s3 == IF node.update # None THEN visit(node.update, path \o <<2>>, s2) ELSE s2
      s4 == visit(node.body, path \o <<3>>, s3)
  IN leave(IF ~s4.firstPass THEN addNameTable(s4, path, s4.env[depth + 1]) ELSE s4, depth)

expressionStatement(node, path, s) == visit(node.expression, path \o <<1>>, s)

blockStatement(node, path, s) ==
  LET depth == Len(s.env)
      s1 == visitAll(node.body, 1, 0, path, [s EXCEPT !.env = makerBlock(@)])
  IN leave(IF ~s1.firstPass THEN addNameTable(s1, path, s1.env[depth + 1]) ELSE s1, depth)

emptyStatement(node, path, s) == s

\* an optional initializer is accepted for a variable of the element type
checkInitializerUnwrapped(s, varType, ip, path) ==
  IF varType = Undef THEN s
  ELSE IF isConsistent(s.result, varType) THEN addCoercion(s, ip, s.result)
  ELSE assert(s, isSubtype(s.result, varType)
                 \/ (s.result.k = "optional" /\ isSubtype(s.result.e, varType)),
              notAssignable, path)

\* the subtype check of the initializer is missing
checkInitializerUnchecked(s, varType, ip, path) ==
  IF varType = Undef THEN s
  ELSE IF isConsistent(s.result, varType) THEN addCoercion(s, ip, s.result)
  ELSE s

\* the initializer is recorded with the variable's type
checkInitializerDemoted(s, varType, ip, path) ==
  IF varType = Undef THEN s
  ELSE IF isConsistent(s.result, varType) THEN addCoercion(s, ip, s.result)
  ELSE addStaticType(assert(s, isSubtype(s.result, varType), notAssignable, path), ip, varType)

\* the check of the initializer's type (s.result) against the variable's
\* type, Undef when the variable has none yet
checkInitializer(s, varType, ip, path) ==
  IF varType = Undef THEN s
  ELSE IF isConsistent(s.result, varType) THEN addCoercion(s, ip, s.result)
  ELSE assert(s, isSubtype(s.result, varType), notAssignable, path)

checkVariableDeclarator(node, isConst, path, s) ==
  LET varName == node.id.name
      typeAnno == node.id.typeAnnotation
      inThis == lookupInThis(s.env, varName)
      alreadyDeclared == ~s.firstPass /\ inThis # NoInfo
      useAnno == ~alreadyDeclared /\ typeAnno # None
      s1 == IF useAnno THEN visit(typeAnno, path \o <<0>>, s) ELSE s
      varType1 == IF alreadyDeclared THEN inThis.type
                  ELSE IF useAnno THEN s1.result ELSE Undef
      ip == path \o <<1>>
      s2 == IF node.init # None
              THEN LET a == visit(node.init, ip, s1)
                       b == assert(a, a.result # Void, "void may not be an initial value", ip)
                   IN checkInitializer(b, varType1, ip, path)
              ELSE s1
      varType2 == IF varType1 = Undef /\ node.init # None THEN s2.result ELSE varType1
      varType == IF varType2 = Undef THEN Any ELSE varType2
  IN IF alreadyDeclared THEN s2
     ELSE [assert(s2, canRecord(s2.env, varName), "has already been declared", path)
             EXCEPT !.env = record(@, varName,
                                   [NameInfo(varType) EXCEPT !.isConst = isConst,
                                                             !.isExported = s2.inExport])]

\* the condition of isConstFunctionDeclaration
isConstFunction(node, s) ==
  /\ node.kind = "const" /\ Len(node.declarations) = 1 /\ isGlobal(s.env)
  /\ node.declarations[1].init # None
  /\ node.declarations[1].init.t = "ArrowFunctionExpression"

isConstFunctionDeclaration(node, path, s) ==
  LET decl == node.declarations[1]
      fp == path \o <<1, 1>>
      const(s1) ==
        IF lookup(s1.env, decl.id.name) # NoInfo
          THEN [s1 EXCEPT !.env[Len(s1.env)].tab[decl.id.name].isConst = TRUE]
          ELSE s1
  IN IF s.firstPass THEN const(functionDeclarationPass1(decl.init, decl.id, fp, s))
     ELSE functionDeclarationPass2(decl.init, fp, s)

RECURSIVE variableDeclarators(_, _, _, _, _)
variableDeclarators(decls, i, isConst, path, s) ==
  IF i > Len(decls) THEN s
  ELSE variableDeclarators(decls, i + 1, isConst, path,
                           checkVariableDeclarator(decls[i], isConst, path \o <<i>>, s))

variableDeclaration(node, path, s) ==
  IF isConstFunction(node, s) THEN isConstFunctionDeclaration(node, path, s)
  ELSE variableDeclarators(node.declarations, 1, node.kind = "const", path,
                           assert(s, node.kind \in {"const", "let"},
                                  "only const and let are available", path))

----------------------------------------------------------------------------
(* Import declarations *)

\* The importer callback: absent, or a function that, for the source file,
\* returns a name table, throws an ErrorLog, throws a string, or throws
\* another value.
NoImporter == [k |-> "undefined"]
ImporterReturning(tab) == [k |-> "table", tab |-> tab]
ImporterThrowingLog(log) == [k |-> "ErrorLog", log |-> log]
ImporterThrowingString(msg) == [k |-> "string", msg |-> msg]
ImporterThrowingOther == [k |-> "other"]

\* an exception other than the checker's own fatal errors leaves typecheck
propagate(s) == [s EXCEPT !.fatal = TRUE, !.propagated = TRUE]

\* ErrorLog.add: absorbs the entries of another log
errorLogAdd(s, log, sourceFile) == [s EXCEPT !.log = @ \o log]

\* GlobalNameTable.importInfo
importInfo(env, name, info) == [env EXCEPT ![Len(env)].tab = Put(@, name, info)]

\* every value the importer throws is rethrown
callImporterRethrowing(node, path, s) ==
  IF node.importKind = "type" THEN [s |-> s, ret |-> Undef]
  ELSE IF node.importKind # "value"
    THEN [s |-> assert(s, FALSE, "unsupported import declaration", path), ret |-> Undef]
  ELSE IF s.importer = NoImporter
    THEN [s |-> assert(s, FALSE, "import declaration is not available", path), ret |-> Undef]
  ELSE
    LET s1 == [s EXCEPT !.called = Append(@, [file |-> node.source,
                                               firstPass |-> s.firstPass,
                                               global |-> isGlobal(s.env)])]
    IN CASE s.importer.k = "table" -> [s |-> s1, ret |-> s.importer.tab]
         [] OTHER -> [s |-> propagate(s1), ret |-> Undef]

\* returns the checker state and the imported table, Undef if there is none
callImporter(node, path, s) ==
  IF node.importKind = "type" THEN [s |-> s, ret |-> Undef]
  ELSE IF node.importKind # "value"
    THEN [s |-> assert(s, FALSE, "unsupported import declaration", path), ret |-> Undef]
  ELSE IF s.importer = NoImporter
    THEN [s |-> assert(s, FALSE, "import declaration is not available", path), ret |-> Undef]
  ELSE
    LET s1 == [s EXCEPT !.called = Append(@, [file |-> node.source,
                                               firstPass |-> s.firstPass,
                                               global |-> isGlobal(s.env)])]
    IN CASE s.importer.k = "table" -> [s |-> s1, ret |-> s.importer.tab]
         [] s.importer.k = "ErrorLog" ->
              [s |-> errorLogAdd(s1, s.importer.log, node.source), ret |-> Undef]
         [] s.importer.k = "string" ->
              [s |-> assert(s1, FALSE, s.importer.msg, path), ret |-> Undef]
         [] OTHER -> [s |-> propagate(s1), ret |-> Undef]

RECURSIVE importSpecifiers(_, _, _, _, _)
importSpecifiers(specifiers, i, imported, path, s) ==
  IF i > Len(specifiers) THEN s
  ELSE
    LET spec == specifiers[i]
        sp == path \o <<i>>
        info == lookup(<<imported>>, spec.imported)
        s1 == IF spec.t # "ImportSpecifier"
                THEN assert(s, FALSE, "unsupported import declaration", sp)
              ELSE IF info = NoInfo
                THEN assert(s, FALSE, "is not found in", sp)
              ELSE [assert(s, info.isExported, "is declared but not exported in", sp)
                      EXCEPT !.env = importInfo(@, spec.imported, info)]
    IN importSpecifiers(specifiers, i + 1, imported, path, s1)

importDeclaration(node, path, s) ==
  IF ~s.firstPass THEN s
  ELSE
    LET r == callImporter(node, path, s)
    IN IF r.ret = Undef THEN r.s
       ELSE IF ~isGlobal(r.s.env)
         THEN assert(r.s, FALSE, "an import declaration must be at the top level", path)
       ELSE importSpecifiers(node.specifiers, 1, r.ret, path, r.s)

----------------------------------------------------------------------------
----------------------------------------------------------------------------
(* Class declarations and the constructor validator *)

\* InstanceType (types.ts): a new class has no members yet
newClass == [props |-> <<>>, methods |-> <<>>, unboxed |-> -1, leafType |-> FALSE]

hasMember(members, name) == \E i \in 1..Len(members) : members[i].name = name

\* InstanceType.addProperty / addMethod: FALSE / an error for a duplicate
canAddProperty(s, clazz, name) == ~hasMember(s.cls[clazz.n].props, name)
addProperty(s, clazz, name, type) ==
  IF canAddProperty(s, clazz, name)
    THEN [s EXCEPT !.cls[clazz.n].props = Append(@, [name |-> name, type |-> type])]
    ELSE s
canAddMethod(s, clazz, name) == ~hasMember(s.cls[clazz.n].methods, name)
addMethod(s, clazz, name, ftype) ==
  IF canAddMethod(s, clazz, name)
    THEN [s EXCEPT !.cls[clazz.n].methods = Append(@, [name |-> name, type |-> ftype])]
    ELSE s

declaredProperties(s, clazz) == Len(s.cls[clazz.n].props)
extendsObject(clazz) == clazz.sup = objectType

\* InstanceType.sortProperties: the properties of an unboxed type come first
isUnboxedType(t) == t \in {Integer, Float, BooleanT}
sortProperties(s, clazz) ==
  LET props == s.cls[clazz.n].props
      unboxed == SelectSeq(props, LAMBDA m : isUnboxedType(m.type))
      boxed == SelectSeq(props, LAMBDA m : ~isUnboxedType(m.type))
  IN [s EXCEPT !.cls[clazz.n].props = unboxed \o boxed,
               !.cls[clazz.n].unboxed = Len(unboxed)]

\* new ConstructorChecker(checker, clazz): the flags of the properties the
\* class has at this point, all unset
ConstructorChecker(s, clazz) ==
  [s EXCEPT !.inExport = FALSE,
            !.cc = [hasSuperCall |-> FALSE, toplevel |-> 0,
                    properties |-> [i \in 1..Len(s.cls[clazz.n].props) |->
                                      [name |-> s.cls[clazz.n].props[i].name, flag |-> FALSE]]]]

\* the error isValid returns, the empty string for null
noError == ""
RECURSIVE isValidFrom(_, _, _)
isValidFrom(properties, i, error) ==
  IF i > Len(properties) THEN error
  ELSE isValidFrom(properties, i + 1,
                   IF ~properties[i].flag
                     THEN "uninitialized property: " \o properties[i].name
                     ELSE error)

isValid(v, clazz) ==
  isValidFrom(v.cc.properties, 1,
              IF v.cc.hasSuperCall \/ extendsObject(clazz) THEN noError
              ELSE "super() is not called")

\* the overridden handlers count the nesting depth
deeper(s) == IF s.cc = Undef THEN s ELSE [s EXCEPT !.cc.toplevel = @ + 1]
shallower(s) == IF s.cc = Undef THEN s ELSE [s EXCEPT !.cc.toplevel = @ - 1]

classProperty(node, path, s) ==
  IF ~s.firstPass THEN s
  ELSE
    LET clazz == s.result
        nameOk == node.key.t = "Identifier"
        name == IF nameOk THEN node.key.name ELSE "??"
        s1 == assert(s, nameOk, "bad property name", path \o <<1>>)
        s2 == assert(s1, node.value = None, "initial value is not supported", path)
        s3 == IF node.typeAnnotation # None THEN visit(node.typeAnnotation, path \o <<0>>, s2)
              ELSE setResult(s2, Any)
    IN IF s3.fatal THEN s3
       ELSE assert(addProperty(s3, clazz, name, s3.result),
                   canAddProperty(s3, clazz, name), "duplicate property name: " \o name, path)

classMethod(node, path, s) ==
  LET clazz == s.result
      \* s2 is the state after the method's type has been checked
      added(s2) ==
        assert(addMethod(s2, clazz, node.key.name, getStaticType(s2, path)),
               canAddMethod(s2, clazz, node.key.name), "duplicate method name", path)
      \* s1 is the state after functionDeclarationPass1
      typed(s1) ==
        IF s1.fatal THEN s1
        ELSE IF getStaticType(s1, path).k # "function" THEN throw(s1)
        ELSE added(assert(s1, node.kind # "constructor" \/ getStaticType(s1, path).r = Void,
                          "a constructor cannot return a value", path))
      \* v is the ConstructorChecker after the visit, s0 the checker that made it
      back(s0, v) ==
        [v EXCEPT !.cc = s0.cc, !.inExport = s0.inExport, !.result = s0.result,
                  !.validated = Append(@, [class |-> clazz.n, node |-> path,
                                           hasSuperCall |-> v.cc.hasSuperCall,
                                           properties |-> v.cc.properties])]
      finished(s0, v) ==
        IF v.fatal THEN v
        ELSE IF isValid(v, clazz) = noError THEN back(s0, v)
        ELSE assert(back(s0, v), FALSE, isValid(v, clazz), path)
      checked(s0) ==
        IF ~s0.firstPass THEN functionDeclarationPass2(node, path, s0)
        ELSE IF node.key.t # "Identifier" THEN assert(s0, FALSE, "bad method name", path \o <<3>>)
        ELSE IF node.kind = "constructor"
          THEN typed(finished(s0, functionDeclarationPass1(node, None, path,
                                                           ConstructorChecker(s0, clazz))))
          ELSE typed(functionDeclarationPass1(node, None, path, s0))
  IN checked(assert(s, node.kind \in {"constructor", "method"},
                    "getter/setter is not supported", path))

classBody(node, path, s) ==
  LET clazz == s.result
      depth == Len(s.env)
      classBlock == record(makerBlock(s.env), "this", NameInfo(clazz))
      RECURSIVE members(_, _)
      members(i, x) ==
        IF i > Len(node.body) THEN x
        ELSE members(i + 1, visit(node.body[i], path \o <<i>>, setResult(x, clazz)))
  IN leave(members(1, [s EXCEPT !.env = classBlock]), depth)

classDeclaration(node, path, s) ==
  LET className == IF node.id = None THEN "" ELSE node.id.name
      names == s.env
      \* pass 2
      again(info) ==
        LET typed(s1) == IF s1.fatal THEN s1 ELSE setResult(s1, info.type) IN
          IF info # NoInfo /\ info.type.k = "instance"
            THEN typed(visit(node.body, path \o <<1>>, setResult(s, info.type)))
            ELSE throw(s)
      \* pass 1: s5 is the state after sortProperties
      completed(clazz, s5) ==
        LET cons == IF clazz.sup.k = "instance" THEN findConstructor(s5, clazz.sup) ELSE NoMember
        IN setResult(IF findConstructor(s5, clazz) = NoMember
                       THEN assert(assert(s5, declaredProperties(s5, clazz) = 0,
                                          "a constructor is missing", path),
                                   cons = NoMember \/ Len(cons.type.p) = 0,
                                   "a constructor is missing", path)
                       ELSE s5,
                     clazz)
      members(clazz, s4) == IF s4.fatal THEN s4 ELSE completed(clazz, sortProperties(s4, clazz))
      recorded(clazz, s2) ==
        members(clazz,
                visit(node.body, path \o <<1>>,
                      setResult([assert(s2, canRecord(names, className),
                                        "class has already been declared", path)
                                   EXCEPT !.env = record(@, className,
                                                         [NameInfo(clazz) EXCEPT
                                                            !.isTypeName = TRUE,
                                                            !.isExported = s.inExport]),
                                          !.cls = Put(@, className, newClass)],
                                clazz)))
      extending(superInfo) ==
        LET superOk == /\ superInfo # NoInfo /\ superInfo.isTypeName
                       /\ superInfo.type.k = "instance"
                       /\ ~s.cls[superInfo.type.n].leafType
            superClass == IF node.superClass # None /\ superOk THEN superInfo.type
                          ELSE objectType
        IN recorded(InstanceType(className, superClass),
                    assert(assert(s, isGlobal(names), "a class must be declared at top level",
                                  path),
                           node.superClass = None \/ superOk, "invalid super class", path))
  IN IF node.id = None THEN assert(s, FALSE, "class name must be given", path)
     ELSE IF ~s.firstPass THEN again(lookup(names, className))
     ELSE extending(IF node.superClass # None THEN lookup(names, node.superClass.name)
                    ELSE NoInfo)

----------------------------------------------------------------------------
(* NodeVisitor.visit: the dispatch on the node kind.  An Error thrown by a  *)
(* handler ends the traversal.                                             *)

visit(node, path, s) ==
  IF s.fatal THEN s
  ELSE CASE node.t = "NullLiteral" -> nullLiteral(node, path, s)
    [] node.t = "StringLiteral" -> stringLiteral(node, path, s)
    [] node.t = "BooleanLiteral" -> booleanLiteral(node, path, s)
    [] node.t = "NumericLiteral" -> numericLiteral(node, path, s)
    [] node.t = "Identifier" -> identifier(node, path, s)
    [] node.t = "ThisExpression" -> thisExpression(node, path, s)
    [] node.t = "Super" -> superExpression(node, path, s)
    [] node.t = "UnaryExpression" -> unaryExpression(node, path, s)
    [] node.t = "UpdateExpression" -> updateExpression(node, path, s)
    [] node.t = "BinaryExpression" -> binaryExpression(node, path, s)
    [] node.t = "LogicalExpression" -> logicalExpression(node, path, s)
    [] node.t = "ConditionalExpression" -> shallower(conditionalExpression(node, path, deeper(s)))
    [] node.t = "AssignmentExpression" -> assignmentExpression(node, path, s)
    [] node.t = "CallExpression" -> callExpression(node, path, s)
    [] node.t = "MemberExpression" -> memberExpression(node, path, s)
    [] node.t = "NewExpression" -> newExpression(node, path, s)
    [] node.t = "ArrayExpression" -> arrayExpression(node, path, s)
    [] node.t = "ArrowFunctionExpression" -> shallower(arrowFunctionExpression(node, path, deeper(s)))
    [] node.t = "TSTypeReference" -> tsTypeReference(node, path, s)
    [] node.t = "TSArrayType" -> tsArrayType(node, path, s)
    [] node.t = "TSFunctionType" -> tsFunctionType(node, path, s)
    [] node.t = "TSUnionType" -> tsUnionType(node, path, s)
    [] node.t = "TSNumberKeyword" -> setResult(s, Integer)
    [] node.t = "TSVoidKeyword" -> setResult(s, Void)
    [] node.t = "TSBooleanKeyword" -> setResult(s, BooleanT)
    [] node.t = "TSStringKeyword" -> setResult(s, StringT)
    [] node.t = "TSObjectKeyword" -> setResult(s, objectType)
    [] node.t = "TSAnyKeyword" -> setResult(s, Any)
    [] node.t = "TSNullKeyword" -> setResult(s, Null)
    [] node.t = "TSUndefinedKeyword" -> setResult(s, Null)
    [] node.t = "WhileStatement" -> shallower(whileStatement(node, path, deeper(s)))
    [] node.t = "IfStatement" -> shallower(ifStatement(node, path, deeper(s)))
    [] node.t = "ForStatement" -> shallower(forStatement(node, path, deeper(s)))
    [] node.t = "ExpressionStatement" -> expressionStatement(node, path, s)
    [] node.t = "BlockStatement" -> shallower(blockStatement(node, path, deeper(s)))
    [] node.t = "ReturnStatement" -> returnStatement(node, path, s)
    [] node.t = "EmptyStatement" -> emptyStatement(node, path, s)
    [] node.t = "VariableDeclaration" -> variableDeclaration(node, path, s)
    [] node.t = "FunctionDeclaration" -> functionDeclaration(node, path, s)
    [] node.t = "ImportDeclaration" -> importDeclaration(node, path, s)
    [] node.t = "ClassDeclaration" -> classDeclaration(node, path, s)
    [] node.t = "ClassBody" -> classBody(node, path, s)
    [] node.t = "ClassProperty" -> classProperty(node, path, s)
    [] node.t = "ClassMethod" -> classMethod(node, path, s)

----------------------------------------------------------------------------
(* AST nodes (@babel/types).  The children of a node are numbered:         *)
(*   unary/update argument 1; binary/logical/assignment left 1, right 2;   *)
(*   conditional/if test 0, consequent 1, alternate 2; while test 0,       *)
(*   body 1; for test 0, init 1, update 2, body 3; call callee 0,          *)
(*   arguments i; new type parameters <<0, i>>, arguments i; member        *)
(*   object 1, property 2; array elements i; function return type 0,      *)
(*   body 1, parameter annotations <<2, i>>; declaration declarators i;    *)
(*   declarator annotation 0, init 1; block and program statements i;     *)
(*   expression statement and return argument 1; union options i; class    *)
(*   body 1, members i; property annotation 0, key 1; method like a        *)
(*   function, key 3; import specifiers i.                                 *)

Num(raw) == [t |-> "NumericLiteral", raw |-> raw]
Str == [t |-> "StringLiteral"]
Bool == [t |-> "BooleanLiteral"]
NullLit == [t |-> "NullLiteral"]
Id(n) == [t |-> "Identifier", name |-> n]
This == [t |-> "ThisExpression"]
Unary(op, a) == [t |-> "UnaryExpression", operator |-> op, argument |-> a]
Update(op, a) == [t |-> "UpdateExpression", operator |-> op, argument |-> a]
Bin(op, l, r) == [t |-> "BinaryExpression", operator |-> op, left |-> l, right |-> r]
Logical(op, l, r) == [t |-> "LogicalExpression", operator |-> op, left |-> l, right |-> r]
Cond(c, a, b) == [t |-> "ConditionalExpression", test |-> c, consequent |-> a, alternate |-> b]
Assign(op, l, r) == [t |-> "AssignmentExpression", operator |-> op, left |-> l, right |-> r]
Call(f, args) == [t |-> "CallExpression", callee |-> f, arguments |-> args]
Index(o, i) == [t |-> "MemberExpression", object |-> o, property |-> i, computed |-> TRUE]
Prop(o, n) == [t |-> "MemberExpression", object |-> o, property |-> Id(n), computed |-> FALSE]
New(n, tps, args) ==
  [t |-> "NewExpression", callee |-> Id(n), typeParameters |-> tps, arguments |-> args]
TypeArgs(ts) == [t |-> "TSTypeParameterInstantiation", params |-> ts]
ArrayExp(es) == [t |-> "ArrayExpression", elements |-> es]
Param(n, anno) == [name |-> n, typeAnnotation |-> anno]
Arrow(ps, ret, body) ==
  [t |-> "ArrowFunctionExpression", params |-> ps, returnType |-> ret, body |-> body]

TRef(n) == [t |-> "TSTypeReference", name |-> n]
TKey(k) == [t |-> k]
TArr(e) == [t |-> "TSArrayType", elementType |-> e]
TFun(ps, r) == [t |-> "TSFunctionType", parameters |-> ps, typeAnnotation |-> r]
TUnion(ts) == [t |-> "TSUnionType", types |-> ts]
TInteger == TRef("integer")
TFloat == TRef("float")
TString == TKey("TSStringKeyword")
TBoolean == TKey("TSBooleanKeyword")
TAny == TKey("TSAnyKeyword")
TNull == TKey("TSNullKeyword")
TUndefined == TKey("TSUndefinedKeyword")

Declarator(n, anno, init) == [id |-> Param(n, anno), init |-> init]
VarDecl(kind, decls) == [t |-> "VariableDeclaration", kind |-> kind, declarations |-> decls]
Let(n, anno, init) == VarDecl("let", <<Declarator(n, anno, init)>>)
Const(n, anno, init) == VarDecl("const", <<Declarator(n, anno, init)>>)
FuncDecl(n, ps, ret, body) ==
  [t |-> "FunctionDeclaration", id |-> Id(n), params |-> ps, returnType |-> ret, body |-> body]
Block(body) == [t |-> "BlockStatement", body |-> body]
If(c, a, b) == [t |-> "IfStatement", test |-> c, consequent |-> a, alternate |-> b]
While(c, b) == [t |-> "WhileStatement", test |-> c, body |-> b]
For(i, c, u, b) == [t |-> "ForStatement", init |-> i, test |-> c, update |-> u, body |-> b]
Expr(e) == [t |-> "ExpressionStatement", expression |-> e]
Return(a) == [t |-> "ReturnStatement", argument |-> a]
Import(kind, specifiers) ==
  [t |-> "ImportDeclaration", importKind |-> kind, source |-> "m", specifiers |-> specifiers]
Named(n) == [t |-> "ImportSpecifier", imported |-> n]
DefaultImport(n) == [t |-> "ImportDefaultSpecifier", imported |-> n]
Empty == [t |-> "EmptyStatement"]
Super == [t |-> "Super"]
ClassDecl(n, sup, members) ==
  [t |-> "ClassDeclaration", id |-> Id(n), superClass |-> sup,
   body |-> [t |-> "ClassBody", body |-> members]]
ClassProp(n, anno) ==
  [t |-> "ClassProperty", key |-> Id(n), typeAnnotation |-> anno, value |-> None]
Method(kind, n, ps, ret, body) ==
  [t |-> "ClassMethod", kind |-> kind, key |-> Id(n), params |-> ps, returnType |-> ret,
   body |-> Block(body)]
Constructor(ps, body) == Method("constructor", "constructor", ps, None, body)

----------------------------------------------------------------------------
(* Programs: the inputs of typecheck *)

Elems ==
  { [anno |-> TInteger, lit |-> Num(<<"0">>)],
    [anno |-> TFloat, lit |-> Num(<<"1", ".", "5">>)],
    [anno |-> TString, lit |-> Str],
    [anno |-> TBoolean, lit |-> Bool] }

Undefined == Id("undefined")
One == Num(<<"1">>)
OptAnno(a) == TUnion(<<a, TUndefined>>)

\* const foo = (x: T | undefined): ret => { body }
FooDecl(T, ret, body) ==
  Const("foo", None, Arrow(<<Param("x", OptAnno(T.anno))>>, ret, Block(body)))

NarrowTest(op) == Bin(op, Id("x"), Undefined)
UseAs(anno) == Const("y", anno, Id("x"))

\* optional-type.test.ts, foo and foo2:
\*   if (x != undefined) { const y: T = x } else { const y: undefined = x }
IfNarrow(T, op) ==
  <<FooDecl(T, None,
      <<If(NarrowTest(op),
           Block(<<UseAs(IF op = "!=" THEN T.anno ELSE TUndefined)>>),
           Block(<<UseAs(IF op = "!=" THEN TUndefined ELSE T.anno)>>))>>)>>

\* foo3 and foo4: while (x != undefined) { const y: T = x }
WhileNarrow(T, op) ==
  <<FooDecl(T, T.anno,
      <<While(NarrowTest(op), Block(<<UseAs(IF op = "!=" THEN T.anno ELSE TUndefined)>>))>>)>>

\* foo5: for (let i = 0; x != undefined; i++) { const y: T = x }
ForNarrow(T) ==
  <<FooDecl(T, T.anno,
      <<For(Let("i", None, Num(<<"0">>)), NarrowTest("!="), Update("++", Id("i")),
            Block(<<UseAs(T.anno)>>))>>)>>

\* if (x != undefined) { const y = x; x = rhs; const z = x }
Discard(T, rhs) ==
  <<Const("Z", OptAnno(T.anno), T.lit),
    FooDecl(T, None,
      <<If(NarrowTest("!="),
           Block(<<Const("y", None, Id("x")), Expr(Assign("=", Id("x"), rhs)),
                   Const("z", None, Id("x"))>>),
           None)>>)>>

\* 'assigning undefined discards context', 'assigning an optional value
\* discards context':  if (x != undefined) { const y: T = x; x = rhs }
DiscardTyped(T, rhs) ==
  <<Const("Z", OptAnno(T.anno), T.lit),
    FooDecl(T, None,
      <<If(NarrowTest("!="),
           Block(<<UseAs(T.anno), Expr(Assign("=", Id("x"), rhs))>>),
           None)>>)>>

\* 'optional types are flow-sensitive (negative cases)'
AfterIf(T) ==
  <<FooDecl(T, None,
      <<If(NarrowTest("=="), Expr(Assign("=", Id("x"), T.lit)), None), UseAs(T.anno)>>)>>

AfterReturn(T) == <<FooDecl(T, None, <<Return(None), UseAs(T.anno)>>)>>

IfNarrowPrograms == { IfNarrow(T, op) : T \in Elems, op \in {"!=", "=="} }
LoopNarrowPrograms ==
  { WhileNarrow(T, op) : T \in Elems, op \in {"!=", "=="} } \cup { ForNarrow(T) : T \in Elems }
DiscardPrograms == { Discard(T, rhs) : T \in Elems, rhs \in {Undefined, NullLit, Id("Z")} }
DiscardTypedPrograms == { DiscardTyped(T, rhs) : T \in Elems, rhs \in {Undefined, Id("Z")} }
AfterIfPrograms == { AfterIf(T) : T \in Elems }
AfterReturnPrograms == { AfterReturn(T) : T \in Elems }

\* optional-type.test.ts, 'initialize' and 'assignment':
\*   const Z: T | undefined = lit; const c: undefined = undefined;
\*   let a: T | undefined = rhs            (OptionalInit)
\*   let a: T | undefined; a = rhs         (OptionalAssign)
OptionalRhs(T) == {T.lit, Undefined, NullLit, Id("Z"), Id("c")}
OptionalPreamble(T) ==
  <<Const("Z", OptAnno(T.anno), T.lit), Const("c", TUndefined, Undefined)>>
OptionalInit(T, rhs) == OptionalPreamble(T) \o <<Let("a", OptAnno(T.anno), rhs)>>
OptionalAssign(T, rhs) ==
  OptionalPreamble(T) \o <<Let("a", OptAnno(T.anno), None), Expr(Assign("=", Id("a"), rhs))>>
OptionalInitPrograms ==
  UNION { { OptionalInit(T, rhs) : rhs \in OptionalRhs(T) } : T \in Elems }
OptionalAssignPrograms ==
  UNION { { OptionalAssign(T, rhs) : rhs \in OptionalRhs(T) } : T \in Elems }

\* a call of a function that is declared later in the file:
\*   g(arg); function g(h: any) { }
ForwardCall(arg) ==
  <<Expr(Call(Id("g"), <<arg>>)), FuncDecl("g", <<Param("h", TAny)>>, None, Block(<<>>))>>
ForwardCallPrograms ==
  { ForwardCall(arg) : arg \in {One, Str, Id("g"), Id("u"), Arrow(<<>>, None, One),
                                ArrayExp(<<Arrow(<<>>, TInteger, One)>>)} }

\* import { ... } from "m", at the top level, in a block and in a function
\* body, followed by a use of the imported names:
\*   import { x, y } from "m"; let w = x
ImportForms ==
  { Import("value", <<Named("x")>>), Import("value", <<Named("y")>>),
    Import("value", <<Named("z")>>), Import("value", <<Named("x"), Named("y")>>),
    Import("value", <<DefaultImport("x"), Named("x")>>),
    Import("type", <<Named("x")>>), Import("typeof", <<Named("x")>>) }
ImportProgram(imp) == <<imp, Let("w", None, One)>>
ImportInBlock(imp) == <<Block(<<imp>>), Let("w", None, One)>>
ImportInFunction(imp) == <<FuncDecl("g", <<>>, None, Block(<<imp>>)), Let("w", None, One)>>
ImportPrograms ==
  { ImportProgram(imp) : imp \in ImportForms }
  \cup { ImportInBlock(imp) : imp \in ImportForms }
  \cup { ImportInFunction(imp) : imp \in ImportForms }

\* the table of the imported file: x is exported, y is not
ImportedTable ==
  [GlobalNameTable EXCEPT
     !.tab = Put(Put(EmptyTab, "x", [NameInfo(Integer) EXCEPT !.isExported = TRUE]),
                 "y", NameInfo(StringT))]
ForeignLog ==
  <<[msg |-> "unknown name", node |-> <<-1, 1>>],
    [msg |-> notAssignable, node |-> <<-1, 2>>]>>
Importers ==
  { NoImporter, ImporterReturning(ImportedTable), ImporterThrowingLog(ForeignLog),
    ImporterThrowingLog(<<>>), ImporterThrowingString("file not found"),
    ImporterThrowingOther }
ImportersOf(p) == IF p \in ImportPrograms THEN Importers ELSE {NoImporter}

\* let a: T1 | T2 | ...
MaxUnionOptions == 3
UnionOptions ==
  {TInteger, TString, TAny, TNull, TUndefined, OptAnno(TInteger), TArr(OptAnno(TFloat))}
UnionProgram(ts) == <<Let("a", TUnion(ts), None)>>
UnionPrograms ==
  { UnionProgram(ts) : ts \in UNION { [1..n -> UnionOptions] : n \in 2..MaxUnionOptions } }

\* let a: TA; let b: TB; a op b        let a: TA[]; let b: TB; a[0] op b
AssignTypes == {TInteger, TFloat, TString, TAny, OptAnno(TInteger), TArr(TInteger)}
AssignOps ==
  {"=", "+=", "-=", "*=", "/=", "%=", "|=", "^=", "&=", "<<=", ">>=", ">>>=",
   "||=", "&&=", "??=", "**="}
IdAssign(ta, tb, op) ==
  <<Let("a", ta, None), Let("b", tb, None), Expr(Assign(op, Id("a"), Id("b")))>>
ElemAssign(ta, tb, op) ==
  <<Let("a", TArr(ta), None), Let("b", tb, None),
    Expr(Assign(op, Index(Id("a"), Num(<<"0">>)), Id("b")))>>
IdAssignPrograms == { IdAssign(ta, tb, op) : ta \in AssignTypes, tb \in AssignTypes, op \in AssignOps }
ElemAssignPrograms ==
  { ElemAssign(ta, tb, op) : ta \in AssignTypes, tb \in AssignTypes, op \in AssignOps }

\* sequences of global declarations and statements
MaxDecls == 2
GlobalStatements ==
  { Let("a", None, One),
    Let("a", TString, Str),
    Let("b", None, Id("a")),
    Let("b", TInteger, Num(<<"1", ".", "5">>)),
    Const("f", None, Arrow(<<>>, TInteger, One)),
    FuncDecl("g", <<Param("p", TInteger)>>, None, Block(<<Return(Id("a"))>>)),
    Expr(Assign("=", Id("a"), Str)),
    Expr(Assign("=", Id("f"), Id("a"))),
    Let("c", TInteger, Call(Id("f"), <<>>)) }
GlobalPrograms == UNION { [1..n -> GlobalStatements] : n \in 1..MaxDecls }

\* const f = (p: integer): integer => p; let n: integer = 1; let d: any;
\* let v: integer[] = [1]; e
Atoms ==
  {One, Num(<<"1", ".", "5">>), Str, Bool, NullLit, Undefined, Id("n"), Id("d"), Id("v")}
Compound ==
  { Unary(op, a) : op \in {"-", "!", "~", "typeof"}, a \in Atoms }
  \cup { Update("++", a) : a \in {Id("n"), Id("d")} }
  \cup { Bin(op, a, b) : op \in {"+", "==", "<", "**", "%", "&"}, a \in Atoms, b \in Atoms }
  \cup { Logical("&&", a, b) : a \in Atoms, b \in Atoms }
  \cup { Cond(c, a, b) : c \in {Bool, Id("d"), Id("v")}, a \in Atoms, b \in Atoms }
  \cup { Assign("=", l, a) : l \in {Id("n"), Id("d")}, a \in Atoms }
  \cup { Index(Id("v"), a) : a \in Atoms }
  \cup { Prop(a, "length") : a \in Atoms }
  \cup { Call(Id("f"), <<a>>) : a \in Atoms }
  \cup { New("Array", TypeArgs(<<TInteger>>), <<a>>) : a \in Atoms }
  \cup { New(ByteArrayClass, None, <<a, b>>) : a \in Atoms, b \in {One, Str} }
  \cup { ArrayExp(<<a, b>>) : a \in Atoms, b \in Atoms }
  \cup { Arrow(<<>>, None, a) : a \in Atoms }
ExprProgram(e) ==
  <<Const("f", None, Arrow(<<Param("p", TInteger)>>, TInteger, Id("p"))),
    Let("n", TInteger, One), Let("d", TAny, None),
    Let("v", TArr(TInteger), ArrayExp(<<One>>)), Expr(e)>>
ExprPrograms == { ExprProgram(e) : e \in Atoms \cup Compound }

\* class B { constructor() { } }
\* class A [extends B] { p: integer; constructor() { body }; q: integer }
ThisAssign(op, n) == Assign(op, Prop(This, n), One)
InitForms(n) ==
  { Expr(ThisAssign("=", n)),
    If(Bool, Expr(ThisAssign("=", n)), None),
    If(Bool, Block(<<Expr(ThisAssign("=", n))>>), Block(<<>>)),
    While(Bool, Block(<<Expr(ThisAssign("=", n))>>)),
    For(None, Bool, None, Block(<<Expr(ThisAssign("=", n))>>)),
    Block(<<Expr(ThisAssign("=", n))>>),
    Expr(Arrow(<<>>, None, ThisAssign("=", n))),
    Expr(Cond(Bool, ThisAssign("=", n), One)),
    Expr(ThisAssign("+=", n)),
    Expr(Assign("=", Index(This, Str), One)),
    Expr(Logical("||", Bool, ThisAssign("=", n))),
    Let("a", None, ThisAssign("=", n)) }
SuperCall == Expr(Call(Super, <<>>))
SuperForms == { SuperCall, If(Bool, SuperCall, None), Block(<<SuperCall>>) }
\* g is declared nowhere
InArgument(n) == Expr(Call(Id("g"), <<ThisAssign("=", n)>>))
ConstructorStatements ==
  InitForms("p") \cup {Expr(ThisAssign("=", "q")), InArgument("q")} \cup SuperForms
ConstructorBodies ==
  {<<>>} \cup { <<a>> : a \in ConstructorStatements }
  \cup { <<a, b>> : a \in ConstructorStatements, b \in ConstructorStatements }
ConstructorProgram(sup, body) ==
  <<ClassDecl("B", None, <<Constructor(<<>>, <<>>)>>),
    ClassDecl("A", sup, <<ClassProp("p", TInteger), Constructor(<<>>, body),
                          ClassProp("q", TInteger)>>)>>
ConstructorPrograms ==
  { ConstructorProgram(sup, body) : sup \in {None, Id("B")}, body \in ConstructorBodies }

\* a use of a name, then the declaration of the name
ForwardReferences ==
  { <<Expr(Bin("+", Id("x"), One)), Let("x", TInteger, One)>>,
    <<Expr(Call(Id("f"), <<>>)), FuncDecl("f", <<>>, None, Block(<<>>))>>,
    <<FuncDecl("mk", <<>>, None, Block(<<Expr(Call(Id("f"), <<>>))>>)),
      FuncDecl("f", <<>>, None, Block(<<>>))>>,
    <<Expr(New("C", None, <<>>)), ClassDecl("C", None, <<>>)>>,
    <<FuncDecl("mk", <<>>, None, Block(<<Return(New("C", None, <<>>))>>)),
      ClassDecl("C", None, <<>>)>>,
    <<Let("c", TRef("C"), None), ClassDecl("C", None, <<>>)>> }
\* a use of a name that is declared nowhere
UnknownNames ==
  { <<Expr(Id("u"))>>, <<Let("a", None, Id("u"))>>,
    <<FuncDecl("g", <<>>, None, Block(<<Return(Id("u"))>>))>> }

\* let d: any; let z: integer | undefined; function f() { body }
\* with up to MaxReturns statements in the body
MaxReturns == 2
ReturnArgs == {None, One, Str, NullLit, Id("d"), Id("z")}
ReturnForms ==
  { Return(a) : a \in ReturnArgs }
  \cup { If(Bool, Return(a), None) : a \in {None, One, Str} }
  \cup { Block(<<Return(One)>>), While(Bool, Block(<<Return(Id("d"))>>)),
         Expr(One), Expr(Arrow(<<>>, None, Block(<<Return(Str)>>))) }
ReturnProgram(body) ==
  <<Let("d", TAny, None), Let("z", OptAnno(TInteger), None),
    FuncDecl("f", <<>>, None, Block(body))>>
ReturnPrograms ==
  { ReturnProgram(body) : body \in UNION { [1..n -> ReturnForms] : n \in 0..MaxReturns } }

\* two declarations of the name a in one scope (the global scope, a block,
\* a function body), and a declaration of a in a scope nested in the scope
\* of the first one
DeclForms ==
  { Let("a", None, One), Let("a", TString, Str), Const("a", None, One),
    Const("a", None, Arrow(<<>>, None, One)) }
InGlobal(d1, d2) == <<d1, d2>>
InBlock(d1, d2) == <<Block(<<d1, d2>>)>>
InFunction(d1, d2) == <<FuncDecl("g", <<>>, None, Block(<<d1, d2>>))>>
SameScopePrograms ==
  { InGlobal(d1, d2) : d1 \in DeclForms, d2 \in DeclForms }
  \cup { InBlock(d1, d2) : d1 \in DeclForms, d2 \in DeclForms }
  \cup { InFunction(d1, d2) : d1 \in DeclForms, d2 \in DeclForms }
ShadowPrograms ==
  { <<d1, Block(<<d2>>)>> : d1 \in DeclForms, d2 \in DeclForms }
  \cup { <<d1, FuncDecl("g", <<>>, None, Block(<<d2>>))>> : d1 \in DeclForms, d2 \in DeclForms }
  \cup { <<Block(<<d1, Block(<<d2>>)>>)>> : d1 \in DeclForms, d2 \in DeclForms }
  \cup { <<FuncDecl("g", <<Param("a", TInteger)>>, None, Block(<<d2>>))>> : d2 \in DeclForms }

\* a declaration of k and an assignment to k: after the declaration and
\* before it, at the top level, in a function body and in a block; with a
\* local declaration, after it, and before it in the scope of a global k
KDecls ==
  { Const("k", None, One), Const("k", None, Arrow(<<>>, None, One)),
    FuncDecl("k", <<>>, None, Block(<<>>)), Let("k", TInteger, One) }
KLocalDecls == { Const("k", None, One), Const("k", None, Arrow(<<>>, None, One)),
                 Let("k", TInteger, One) }
KAssigns ==
  { Assign("=", Id("k"), One), Assign("+=", Id("k"), One), Assign("|=", Id("k"), One),
    Update("++", Id("k")), Update("--", Id("k")) }
InG(a) == FuncDecl("g", <<>>, None, Block(<<Expr(a)>>))
ConstAssignPrograms ==
  { <<d, Expr(a)>> : d \in KDecls, a \in KAssigns }
  \cup { <<Expr(a), d>> : d \in KDecls, a \in KAssigns }
  \cup { <<d, InG(a)>> : d \in KDecls, a \in KAssigns }
  \cup { <<InG(a), d>> : d \in KDecls, a \in KAssigns }
  \cup { <<d, Block(<<Expr(a)>>)>> : d \in KDecls, a \in KAssigns }
  \cup { <<Block(<<d, Expr(a)>>)>> : d \in KLocalDecls, a \in KAssigns }
  \cup { <<Let("k", TInteger, One), Block(<<Expr(a), d>>)>> : d \in KLocalDecls, a \in KAssigns }

\* a numeric literal as an expression statement; raw is the text of the
\* literal, one string for each character
Literals ==
  { <<"0">>, <<"1", "5">>, <<"0", "x", "1", "F">>, <<"0", "X", "a">>,
    <<"1", ".", "5">>, <<".", "5">>, <<"1", "e", "5">>, <<"2", "E", "3">>,
    <<"1", "e", "+", "5">>, <<"5", "e", "-", "1">>, <<"1", ".", "5", "e", "3">> }
LiteralPrograms == { <<Expr(Num(raw))>> : raw \in Literals }

\* class B { [constructor(...) { }] }
\* class A [extends B] { properties }       (A has no constructor)
SuperConstructors ==
  { <<>>, <<Constructor(<<>>, <<>>)>>, <<Constructor(<<Param("x", TInteger)>>, <<>>)>> }
PropertyLists ==
  { <<>>, <<ClassProp("p", TInteger)>>, <<ClassProp("p", TInteger), ClassProp("q", TString)>> }
DefaultConstructorPrograms ==
  { <<ClassDecl("B", None, cons), ClassDecl("A", sup, props)>> :
      cons \in SuperConstructors, sup \in {None, Id("B")}, props \in PropertyLists }

Programs ==
  IfNarrowPrograms \cup LoopNarrowPrograms \cup DiscardPrograms \cup DiscardTypedPrograms
  \cup AfterIfPrograms \cup AfterReturnPrograms \cup UnionPrograms
  \cup IdAssignPrograms \cup ElemAssignPrograms \cup GlobalPrograms \cup ExprPrograms
  \cup OptionalInitPrograms \cup OptionalAssignPrograms \cup ForwardCallPrograms
  \cup ImportPrograms \cup ConstructorPrograms \cup ForwardReferences \cup UnknownNames
  \cup ReturnPrograms \cup SameScopePrograms \cup ShadowPrograms \cup ConstAssignPrograms
  \cup LiteralPrograms \cup DefaultConstructorPrograms

----------------------------------------------------------------------------
(* BytecodeBufferBuilder (part_000).  A Buffer is the sequence of its       *)
(* bytes.  builder holds the fields of the object; frame holds the call of   *)
(* load that is running (its arguments and local variables), the array the  *)
(* last generate returned, and the history of the calls: their number,      *)
(* whether jump or reset was among them since the last generate, and how    *)
(* many commands the buffers held when the last load was called.            *)

BYTECODE == [NONE |-> 0, LOAD |-> 1, JUMP |-> 2, RESET |-> 3]

LOAD_HEADER_SIZE == 9

\* Buffer.writeUIntLE(value, offset, byteLength): the bytes written
writeUIntLE(value, byteLength) ==
  [i \in 1..byteLength |-> (value \div (256 ^ (i - 1))) % 256]

\* the value of the byteLength bytes of buf that follow position i
readUIntLE(buf, i, byteLength) ==
  LET RECURSIVE sum(_)
      sum(k) == IF k > byteLength THEN 0 ELSE buf[i + k] * (256 ^ (k - 1)) + sum(k + 1)
  IN sum(1)

createLoadHeader(loadCmd, address, size) ==
  writeUIntLE(loadCmd, 1) \o writeUIntLE(address, 4) \o writeUIntLE(size, 4)

\* n & ~0b11
align4(n) == n - (n % 4)

\* new BytecodeBufferBuilder(unitSize)
BytecodeBufferBuilder(unitSize) ==
  [unitSize |-> unitSize, units |-> <<>>, lastUnit |-> <<>>, lastUnitRemain |-> unitSize]

NoCall ==
  [op |-> "none", address |-> 0, data |-> <<>>, dataRemain |-> 0, offset |-> 0,
   loadAddress |-> 0, result |-> <<>>, calls |-> 0, last |-> "new", onlyLoads |-> TRUE,
   before |-> 0]

\* the commands a buffer holds
commands(buf) ==
  LET RECURSIVE parse(_)
      parse(i) ==
        IF i > Len(buf) THEN <<>>
        ELSE IF buf[i] = BYTECODE.LOAD
          THEN <<[cmd |-> "LOAD", address |-> readUIntLE(buf, i, 4),
                  body |-> SubSeq(buf, i + LOAD_HEADER_SIZE,
                                  i + LOAD_HEADER_SIZE + readUIntLE(buf, i + 4, 4) - 1)]>>
               \o parse(i + LOAD_HEADER_SIZE + readUIntLE(buf, i + 4, 4))
        ELSE IF buf[i] = BYTECODE.JUMP
          THEN <<[cmd |-> "JUMP", address |-> readUIntLE(buf, i, 4), body |-> <<>>]>>
               \o parse(i + 5)
        ELSE <<[cmd |-> "RESET", address |-> 0, body |-> <<>>]>> \o parse(i + 1)
  IN parse(1)

RECURSIVE commandsOf(_, _)
commandsOf(bufs, i) ==
  IF i > Len(bufs) THEN <<>> ELSE commands(bufs[i]) \o commandsOf(bufs, i + 1)

\* the commands of the units and of the last unit, in order
allCommands(b) == commandsOf(b.units, 1) \o commands(b.lastUnit)

\* the inputs: unit sizes, addresses, and data of up to MaxData bytes, the
\* byte at position i being i
UnitSizes == {8, 12, 13, 16, 22}
Addresses == {0, 300}
MaxData == 6
DataOf(n) == [i \in 1..n |-> i]
MaxCalls == 3
MaxUnits == 8

\* load(address, data), up to the loop
load(address, data) ==
  /\ frame.op = "none" /\ frame.calls < MaxCalls
  /\ frame' = [frame EXCEPT !.op = "load", !.address = address, !.data = data,
                            !.dataRemain = Len(data), !.offset = 0, !.loadAddress = address,
                            !.calls = @ + 1, !.last = "load",
                            !.before = Len(allCommands(builder))]
  /\ UNCHANGED <<builder, typecheckVars>>

\* one iteration of the loop of load; units.push fails when the array holds
\* MaxUnits buffers (the memory of the process is used up), which ends the
\* process
loadIteration ==
  /\ frame.op = "load"
  /\ IF LOAD_HEADER_SIZE + frame.dataRemain <= builder.lastUnitRemain
       THEN /\ builder' =
                 [builder EXCEPT
                    !.lastUnit = @ \o createLoadHeader(BYTECODE.LOAD, frame.loadAddress,
                                                       frame.dataRemain)
                                   \o SubSeq(frame.data, frame.offset + 1, Len(frame.data)),
                    !.lastUnitRemain = @ - (LOAD_HEADER_SIZE + frame.dataRemain)]
            /\ frame' = [frame EXCEPT !.op = "none"]
     ELSE IF Len(builder.units) >= MaxUnits
       THEN /\ frame' = [frame EXCEPT !.op = "exhausted"]
            /\ builder' = builder
     ELSE IF LOAD_HEADER_SIZE < builder.lastUnitRemain
       THEN LET loadSize == align4(builder.lastUnitRemain - LOAD_HEADER_SIZE) IN
              /\ builder' =
                   [builder EXCEPT
                      !.units = Append(@, builder.lastUnit
                                          \o createLoadHeader(BYTECODE.LOAD, frame.loadAddress,
                                                              loadSize)
                                          \o SubSeq(frame.data, frame.offset + 1,
                                                    frame.offset + loadSize)),
                      !.lastUnit = <<>>,
                      !.lastUnitRemain = builder.unitSize]
              /\ frame' = [frame EXCEPT !.dataRemain = @ - loadSize, !.offset = @ + loadSize,
                                        !.loadAddress = @ + loadSize]
     ELSE /\ builder' = [builder EXCEPT !.units = Append(@, builder.lastUnit),
                                        !.lastUnit = <<>>,
                                        !.lastUnitRemain = builder.unitSize]
          /\ frame' = frame
  /\ UNCHANGED typecheckVars

\* a command of one header only: jump (size 5) and reset (size 1)
appendHeader(b, header) ==
  IF Len(header) <= b.lastUnitRemain
    THEN [b EXCEPT !.lastUnit = @ \o header]
    ELSE [b EXCEPT !.units = Append(@, b.lastUnit), !.lastUnit = header]

jump(address) ==
  /\ frame.op = "none" /\ frame.calls < MaxCalls
  /\ builder' = appendHeader(builder, writeUIntLE(BYTECODE.JUMP, 1) \o writeUIntLE(address, 4))
  /\ frame' = [frame EXCEPT !.calls = @ + 1, !.last = "jump", !.onlyLoads = FALSE]
  /\ UNCHANGED typecheckVars

reset ==
  /\ frame.op = "none" /\ frame.calls < MaxCalls
  /\ builder' = appendHeader(builder, <<BYTECODE.RESET>>)
  /\ frame' = [frame EXCEPT !.calls = @ + 1, !.last = "reset", !.onlyLoads = FALSE]
  /\ UNCHANGED typecheckVars

generate ==
  /\ frame.op = "none" /\ frame.last # "generate"
  /\ frame' = [frame EXCEPT !.result = Append(builder.units, builder.lastUnit),
                            !.last = "generate", !.onlyLoads = TRUE]
  /\ builder' = BytecodeBufferBuilder(builder.unitSize)
  /\ UNCHANGED typecheckVars

InitBuilder ==
  /\ builder \in { BytecodeBufferBuilder(unitSize) : unitSize \in UnitSizes }
  /\ frame = NoCall
  /\ prog = <<>> /\ pc = "unused" /\ idx = 0 /\ runs = 0
  /\ chk = NewChecker(<<GlobalNameTable>>, NoImporter)

NextBuilder ==
  \/ \E address \in Addresses, n \in 0..MaxData : load(address, DataOf(n))
  \/ loadIteration
  \/ \E address \in Addresses : jump(address)
  \/ reset
  \/ generate

SpecBuilder == InitBuilder /\ [][NextBuilder]_vars

\* a call of load that has started goes on until it returns
SpecLoad == InitBuilder /\ [][NextBuilder]_vars /\ WF_vars(loadIteration)

----------------------------------------------------------------------------
(* The driver: typecheck *)

addBuiltinTypes(s) ==
  LET clazz == InstanceType(ByteArrayClass, objectType)
      success == canRecord(s.env, ByteArrayClass)
      s1 == [s EXCEPT !.env = record(@, ByteArrayClass,
                                     [NameInfo(clazz) EXCEPT !.isTypeName = TRUE,
                                                             !.isExported = TRUE]),
                      !.cls = BuiltinClasses]
  IN assert(s1, success, "internal error: cannot record the class", <<>>)

\* ErrorLog.hasError
hasError(s) == s.log # <<>>

\* the name table attached to the program node is the global table itself
attached(s) == IF <<>> \in DOMAIN s.nt THEN [s EXCEPT !.nt[<<>>] = s.env[1]] ELSE s

Init ==
  /\ prog \in Programs
  /\ pc = "start"
  /\ idx = 0
  /\ runs = 0
  /\ chk \in { NewChecker(<<GlobalNameTable>>, importer) : importer \in ImportersOf(prog) }
  /\ builder = BytecodeBufferBuilder(16) /\ frame = NoCall

\* typecheck, up to the first visit
typecheck ==
  /\ pc = "start"
  /\ chk' = [addBuiltinTypes(chk) EXCEPT !.firstPass = TRUE, !.result = Any]
  /\ pc' = "visit"
  /\ UNCHANGED <<prog, idx, runs, builderVars>>

\* TypeChecker.program: attaches the table and starts the loop of visitor.program
program ==
  /\ pc = "visit"
  /\ chk' = addNameTable(chk, <<>>, chk.env[1])
  /\ idx' = 0
  /\ runs' = runs + 1
  /\ pc' = "body"
  /\ UNCHANGED <<prog, builderVars>>

\* one iteration of the loop of visitor.program
programBody ==
  /\ pc = "body"
  /\ idx < Len(prog)
  /\ chk' = attached(visit(prog[idx + 1], <<idx + 1>>, chk))
  /\ idx' = idx + 1
  /\ pc' = IF chk'.propagated THEN "propagated" ELSE IF chk'.fatal THEN "fatal" ELSE "body"
  /\ UNCHANGED <<prog, runs, builderVars>>

\* the second visit starts whatever the log holds
endOfPass1Unchecked ==
  /\ pc = "body" /\ idx = Len(prog) /\ chk.firstPass
  /\ pc' = "visit" /\ chk' = [chk EXCEPT !.firstPass = FALSE, !.result = Any]
  /\ UNCHANGED <<prog, idx, runs, builderVars>>

\* typecheck, between the two visits
endOfPass1 ==
  /\ pc = "body" /\ idx = Len(prog) /\ chk.firstPass
  /\ IF hasError(chk)
       THEN pc' = "thrown" /\ chk' = chk
       ELSE pc' = "visit" /\ chk' = [chk EXCEPT !.firstPass = FALSE, !.result = Any]
  /\ UNCHANGED <<prog, idx, runs, builderVars>>

\* typecheck, after the second visit
endOfPass2 ==
  /\ pc = "body" /\ idx = Len(prog) /\ ~chk.firstPass
  /\ pc' = IF hasError(chk) THEN "thrown" ELSE "returned"
  /\ UNCHANGED <<prog, idx, chk, runs, builderVars>>

Next == typecheck \/ program \/ programBody \/ endOfPass1 \/ endOfPass2

Spec == Init /\ [][Next]_vars

\* Pass 1 run a second time on the same AST and the same global table
\* (the scenario of the idempotence property): the first visit is followed
\* by another visit with firstPass still set.
rerunPass1 ==
  /\ pc = "body" /\ idx = Len(prog) /\ chk.firstPass /\ runs = 1
  /\ pc' = "visit"
  /\ chk' = [chk EXCEPT !.result = Any]
  /\ UNCHANGED <<prog, idx, runs, builderVars>>

NextRerun == typecheck \/ program \/ programBody \/ rerunPass1

SpecRerun == Init /\ [][NextRerun]_vars

----------------------------------------------------------------------------
(* Properties *)

ErrorAt(node) == \E i \in 1..Len(chk.log) : chk.log[i].node = node
Flagged(node) == node \in chk.co
Typed(node) == node \in DOMAIN chk.st

IsNullAnno(a) == a.t \in {"TSNullKeyword", "TSUndefinedKeyword"}

\* the type an annotation denotes
RECURSIVE TypeOf(_)
TypeOf(a) ==
  CASE a.t = "TSTypeReference" -> (IF a.name = "integer" THEN Integer ELSE Float)
    [] a.t = "TSStringKeyword" -> StringT
    [] a.t = "TSBooleanKeyword" -> BooleanT
    [] a.t = "TSAnyKeyword" -> Any
    [] IsNullAnno(a) -> Null
    [] a.t = "TSArrayType" -> ArrayType(TypeOf(a.elementType))
    [] a.t = "TSUnionType" ->
         OptionalType(TypeOf(IF IsNullAnno(a.types[1]) THEN a.types[2] ELSE a.types[1]))

\* the expression nodes of a program: their paths, and whether the node is a
\* literal, an identifier, an array, new or arrow function expression or an
\* element access
ValueKinds ==
  {"NullLiteral", "StringLiteral", "BooleanLiteral", "NumericLiteral", "Identifier",
   "ArrayExpression", "NewExpression", "ArrowFunctionExpression"}

RECURSIVE ExprNodes(_, _)
ExprNodes(node, path) ==
  LET self == {[path |-> path,
                value |-> node.t \in ValueKinds \/ (node.t = "MemberExpression" /\ node.computed)]}
      sub(n, k) == IF n = None THEN {} ELSE ExprNodes(n, path \o <<k>>)
      all(ns) == UNION { ExprNodes(ns[i], path \o <<i>>) : i \in 1..Len(ns) }
  IN CASE node.t \in {"UnaryExpression", "UpdateExpression"} -> self \cup sub(node.argument, 1)
       [] node.t \in {"BinaryExpression", "LogicalExpression", "AssignmentExpression"} ->
            self \cup sub(node.left, 1) \cup sub(node.right, 2)
       [] node.t = "ConditionalExpression" ->
            self \cup sub(node.test, 0) \cup sub(node.consequent, 1) \cup sub(node.alternate, 2)
       [] node.t = "CallExpression" -> self \cup sub(node.callee, 0) \cup all(node.arguments)
       [] node.t = "MemberExpression" ->
            self \cup sub(node.object, 1) \cup (IF node.computed THEN sub(node.property, 2) ELSE {})
       [] node.t = "NewExpression" -> self \cup all(node.arguments)
       [] node.t = "ArrayExpression" -> self \cup all(node.elements)
       [] node.t = "ArrowFunctionExpression" -> self \cup sub(node.body, 1)
       [] node.t = "VariableDeclaration" ->
            UNION { IF node.declarations[i].init = None THEN {}
                    ELSE ExprNodes(node.declarations[i].init, path \o <<i, 1>>) :
                    i \in 1..Len(node.declarations) }
       [] node.t = "FunctionDeclaration" -> sub(node.body, 1)
       [] node.t = "IfStatement" ->
            sub(node.test, 0) \cup sub(node.consequent, 1) \cup sub(node.alternate, 2)
       [] node.t = "WhileStatement" -> sub(node.test, 0) \cup sub(node.body, 1)
       [] node.t = "ForStatement" ->
            sub(node.test, 0) \cup sub(node.init, 1) \cup sub(node.update, 2) \cup sub(node.body, 3)
       [] node.t \in {"ExpressionStatement"} -> sub(node.expression, 1)
       [] node.t = "ReturnStatement" -> sub(node.argument, 1)
       [] node.t = "BlockStatement" -> all(node.body)
       [] node.t \in {"EmptyStatement", "ImportDeclaration"} -> {}
       [] OTHER -> self

ProgramExprNodes == UNION { ExprNodes(prog[i], <<i>>) : i \in 1..Len(prog) }

\* C1: typecheck throws the log after pass 1 when it is not empty, without
\* starting pass 2; otherwise it runs pass 2 and throws the log when it is not
\* empty; it returns only when both passes ended with an empty log.
C1_PassBoundaries ==
  [][ /\ (pc = "body" /\ idx = Len(prog) /\ chk.firstPass /\ chk.log # <<>>)
           => (pc' = "thrown" /\ chk'.log = chk.log /\ runs' = 1)
      /\ (pc = "body" /\ idx = Len(prog) /\ chk.firstPass /\ chk.log = <<>>)
           => (pc' = "visit" /\ ~chk'.firstPass)
      /\ (pc = "body" /\ idx = Len(prog) /\ ~chk.firstPass)
           => (pc' = (IF chk.log # <<>> THEN "thrown" ELSE "returned") /\ chk' = chk)
      /\ (chk.firstPass /\ ~chk'.firstPass) => chk.log = <<>>
      /\ (pc' = "returned") => (chk'.log = <<>> /\ runs' = 2 /\ idx' = Len(prog))
      /\ (pc' = "thrown") => chk'.log # <<>>
    ]_vars

\* a program whose only errors are found in pass 2 has been thrown
C1_Witness == pc = "thrown" /\ ~chk.firstPass /\ runs = 2 /\ chk.log # <<>>

AssignNode == <<3, 1>>
AssignLeft == <<3, 1, 1>>
AssignRight == <<3, 1, 2>>
AssignOperator == prog[3].expression.operator
AssignChecked ==
  /\ prog \in IdAssignPrograms \cup ElemAssignPrograms
  /\ ~chk.firstPass /\ pc = "body" /\ idx = 3
  /\ ~ErrorAt(AssignNode) /\ ~ErrorAt(AssignLeft) /\ ~ErrorAt(AssignRight)
LeftType ==
  IF prog \in IdAssignPrograms THEN lookup(chk.env, "a").type ELSE lookup(chk.env, "a").type.e
RightType == lookup(chk.env, "b").type
PrimitiveMismatch(l, r) == isPrimitiveType(l) /\ isPrimitiveType(r) /\ l # r

\* C3 (as stated): an assignment that pass 2 checks without an error has a
\* right-hand type that is a subtype of the left-hand type when no coercion
\* flag is set on its operands, and has an operand of type any or operands
\* of different primitive representations when a flag is set.
C3_AssignmentSound ==
  AssignChecked =>
    /\ (~Flagged(AssignLeft) /\ ~Flagged(AssignRight)) => isSubtype(RightType, LeftType)
    /\ (Flagged(AssignLeft) \/ Flagged(AssignRight)) =>
         (LeftType = Any \/ RightType = Any \/ PrimitiveMismatch(LeftType, RightType))

\* C3 (amended): an assignment to an identifier that pass 2 checks without
\* an error has, for the operator =, a right-hand type that is a subtype of
\* the left-hand type when no coercion flag is set on its operands; when a
\* flag is set, one of the two types is any or, for the operator =, the two
\* types are the same.
C3_IdentifierAssignmentSound ==
  (AssignChecked /\ prog \in IdAssignPrograms) =>
    /\ (AssignOperator = "=" /\ ~Flagged(AssignLeft) /\ ~Flagged(AssignRight))
         => isSubtype(RightType, LeftType)
    /\ (Flagged(AssignLeft) \/ Flagged(AssignRight)) =>
         (LeftType = Any \/ RightType = Any \/ (AssignOperator = "=" /\ LeftType = RightType))

C3_Witness ==
  /\ AssignChecked /\ prog \in IdAssignPrograms /\ AssignOperator = "="
  /\ ~Flagged(AssignLeft) /\ ~Flagged(AssignRight)
  /\ RightType # LeftType

DuplicateMessages ==
  {"has already been declared", "function has been already declared",
   "function is declared again with a different type"}

\* C4 (as stated): the second run of pass 1 leaves the global scope as it
\* was, and the only errors it adds to those of the first run are
\* duplicate-declaration errors.
C4_RerunOnlyDuplicates ==
  [][ runs = 2 =>
        /\ chk'.env = chk.env
        /\ \A i \in (Len(chk.log) + 1)..Len(chk'.log) :
             \/ chk'.log[i].msg \in DuplicateMessages
             \/ \E j \in 1..Len(chk.log) : chk.log[j] = chk'.log[i]
    ]_vars

\* C4 (amended): the second run of pass 1 leaves every binding of the global
\* scope as it was; it only appends errors to the log: duplicate-declaration
\* errors, the errors of the first run again, and the type errors of
\* references that the first run left unchecked as forward references.
C4_RerunKeepsGlobals ==
  [][ runs = 2 =>
        /\ chk'.env = chk.env
        /\ Len(chk'.log) >= Len(chk.log)
        /\ SubSeq(chk'.log, 1, Len(chk.log)) = chk.log
    ]_vars

C4_Witness ==
  /\ runs = 2 /\ pc = "body" /\ idx = Len(prog) /\ prog \in GlobalPrograms
  /\ "f" \in DOMAIN chk.env[1].tab /\ "a" \in DOMAIN chk.env[1].tab
  /\ \E i \in 1..Len(chk.log) : chk.log[i].msg = "has already been declared"

\* The declarators of `const y: ... = x` in the programs on optional types,
\* and the references to x around the assignment of a Discard program.
FooBody == <<1, 1, 1, 1>>
YInConsequent == FooBody \o <<1, 1, 1, 1>>
YInAlternate == FooBody \o <<1, 2, 1, 1>>
YInWhileBody == FooBody \o <<1, 1, 1, 1>>
YInForBody == FooBody \o <<1, 3, 1, 1>>
YAfterBranch == FooBody \o <<2, 1>>
DiscardBlock == <<2, 1, 1, 1, 1, 1>>
YInDiscardBlock == DiscardBlock \o <<1, 1>>
XBeforeAssignment == DiscardBlock \o <<1, 1, 1>>
XAfterAssignment == DiscardBlock \o <<3, 1, 1>>
XDeclared == chk.nt[<<2, 1, 1>>].tab["x"].type
FooVisited(i) == idx >= i /\ pc \in {"body", "thrown", "returned"}

\* C5: for x of type optional T, in the branch of an if statement where the
\* test has established that x is not undefined, `const y: T = x` is accepted
\* without error, and in the other branch `const y: undefined = x` is accepted
\* without error.
C5_IfNarrowing ==
  (prog \in IfNarrowPrograms /\ FooVisited(1)) =>
    (~ErrorAt(YInConsequent) /\ ~ErrorAt(YInAlternate))

\* C6: for x of type optional T, in the body of `while (x != undefined)` and
\* of `for (...; x != undefined; ...)` the use `const y: T = x` is accepted
\* without error, and in the body of `while (x == undefined)` the use
\* `const y: undefined = x` is accepted without error.
C6_LoopNarrowing ==
  (prog \in LoopNarrowPrograms /\ FooVisited(1)) =>
    (~ErrorAt(YInWhileBody) /\ ~ErrorAt(YInForBody))

\* C7 (as stated): in a block guarded by `x != undefined` that assigns
\* undefined, null or an optional value to x, the references to x after the
\* assignment see the declared optional type and the references before it
\* see T.
C7_NarrowedBeforeAssignment ==
  (prog \in DiscardPrograms /\ pc = "returned") =>
    /\ chk.st[XAfterAssignment] = XDeclared
    /\ chk.st[XBeforeAssignment] = XDeclared.e

\* C7 (amended): a block guarded by `x != undefined` that assigns undefined,
\* null or an optional value to x is accepted, and every reference to x in
\* it, before and after the assignment, sees the declared optional type.
C7_DeclaredTypeInWholeBlock ==
  (prog \in DiscardPrograms) =>
    /\ chk.log = <<>>
    /\ pc = "returned" =>
         /\ XDeclared.k = "optional"
         /\ chk.st[XAfterAssignment] = XDeclared
         /\ chk.st[XBeforeAssignment] = XDeclared

C7_Witness ==
  /\ prog \in DiscardPrograms /\ pc = "returned"
  /\ prog[2].declarations[1].init.body.body[1].consequent.body[2].expression.right = Id("Z")
  /\ Typed(XBeforeAssignment) /\ Typed(XAfterAssignment)

\* C8: `if (x != undefined) { const y: T = x; x = undefined }`, and the same
\* with `x = Z` for an optional Z, is rejected: typecheck throws an error
\* located at the declaration of y.
C8_BranchWithAssignmentRejected ==
  (prog \in DiscardTypedPrograms) =>
    /\ pc # "returned"
    /\ FooVisited(2) => ErrorAt(YInDiscardBlock)
    /\ (idx = Len(prog) /\ pc = "body") => chk.firstPass

C8_Witness ==
  /\ prog \in DiscardTypedPrograms /\ pc = "thrown" /\ ErrorAt(YInDiscardBlock)
  /\ prog[2].declarations[1].init.body.body[1].consequent.body[2].expression.right = Id("Z")

\* C9: after `if (x == undefined) x = 0`, and after a bare `return`, a
\* following `const y: T = x` with x declared optional T is reported as an
\* error at that declaration.
C9_OptionalOutsideBranch ==
  (prog \in AfterIfPrograms \cup AfterReturnPrograms) =>
    /\ pc # "returned"
    /\ FooVisited(1) => ErrorAt(YAfterBranch)

C9_Witness ==
  /\ prog \in AfterReturnPrograms /\ pc = "thrown" /\ ErrorAt(YAfterBranch)
  /\ chk.log[1].msg = notAssignable

\* C10: a union type annotation yields OptionalType(T) with no error exactly
\* when it has two options, exactly one of them null or undefined, and the
\* other option T neither any nor an optional type; every other union logs
\* an error at the annotation.
UnionAnno == <<1, 1, 0>>
UnionTypes == prog[1].declarations[1].id.typeAnnotation.types
GoodUnion(ts) ==
  /\ Len(ts) = 2
  /\ IsNullAnno(ts[1]) # IsNullAnno(ts[2])
  /\ LET T == (IF IsNullAnno(ts[1]) THEN ts[2] ELSE ts[1])
     IN T.t # "TSAnyKeyword" /\ T.t # "TSUnionType"
C10_UnionType ==
  (prog \in UnionPrograms /\ FooVisited(1)) =>
    IF GoodUnion(UnionTypes)
      THEN /\ chk.log = <<>>
           /\ lookup(chk.env, "a").type = TypeOf(prog[1].declarations[1].id.typeAnnotation)
           /\ lookup(chk.env, "a").type.k = "optional"
      ELSE ErrorAt(UnionAnno)

C10_Witness ==
  /\ prog \in UnionPrograms /\ pc = "returned"
  /\ IsNullAnno(UnionTypes[1]) /\ UnionTypes[2].t = "TSArrayType"
  /\ lookup(chk.env, "a").type = OptionalType(ArrayType(OptionalType(Float)))


\* The right-hand side of an OptionalInit or OptionalAssign program, the
\* type it has by itself, and the element type T of the variable a.
OptionalPrograms == OptionalInitPrograms \cup OptionalAssignPrograms
OptionalElem == TypeOf(prog[1].declarations[1].id.typeAnnotation.types[1])
OptionalRhsNode == IF prog \in OptionalInitPrograms THEN <<3, 1, 1>> ELSE <<4, 1, 2>>
OptionalRhsExpr ==
  IF prog \in OptionalInitPrograms THEN prog[3].declarations[1].init ELSE prog[4].expression.right
OwnType(e) ==
  CASE e = Undefined \/ e = NullLit \/ e = Id("c") -> Null
    [] e = Id("Z") -> OptionalType(OptionalElem)
    [] OTHER -> OptionalElem

\* C11: initialising or assigning a variable of declared type optional T
\* with a value of type T, null or optional T logs no error, the variable's
\* type stays optional T, and the static type recorded for the right-hand
\* expression is its own type.
C11_OptionalInitAssign ==
  (prog \in OptionalPrograms) =>
    /\ chk.log = <<>>
    /\ pc = "returned" =>
         /\ lookup(chk.env, "a").type = OptionalType(OptionalElem)
         /\ Typed(OptionalRhsNode)
         /\ chk.st[OptionalRhsNode] = OwnType(OptionalRhsExpr)

C11_Witness ==
  /\ prog \in OptionalInitPrograms /\ pc = "returned"
  /\ OptionalRhsExpr \notin {Undefined, NullLit, Id("Z"), Id("c")}
  /\ chk.st[OptionalRhsNode] = Float
  /\ lookup(chk.env, "a").type = OptionalType(Float)


\* The writes of pass 1 and of pass 2 to the side-table.
WritesOfPass(first) == { i \in 1..Len(chk.wr) : chk.wr[i].firstPass = first }
NodeAt(path) ==
  LET RECURSIVE at(_, _)
      at(node, i) ==
        IF i > Len(path) THEN node
        ELSE LET k == path[i]
             IN CASE node.t = "VariableDeclaration" -> at(node.declarations[k].init, i + 2)
                  [] node.t = "ExpressionStatement" -> at(node.expression, i + 1)
                  [] node.t = "ReturnStatement" -> at(node.argument, i + 1)
                  [] node.t = "BlockStatement" -> at(node.body[k], i + 1)
                  [] node.t \in {"ArrowFunctionExpression", "FunctionDeclaration",
                                  "ClassMethod", "ClassDeclaration"} ->
                       at(node.body, i + 1)
                  [] node.t = "ClassBody" -> at(node.body[k], i + 1)
                  [] node.t = "IfStatement" ->
                       at(IF k = 0 THEN node.test ELSE IF k = 1 THEN node.consequent
                          ELSE node.alternate, i + 1)
                  [] node.t = "WhileStatement" -> at(IF k = 0 THEN node.test ELSE node.body, i + 1)
                  [] node.t = "ForStatement" ->
                       at(IF k = 0 THEN node.test ELSE IF k = 1 THEN node.init
                          ELSE IF k = 2 THEN node.update ELSE node.body, i + 1)
                  [] node.t \in {"UnaryExpression", "UpdateExpression"} -> at(node.argument, i + 1)
                  [] node.t \in {"BinaryExpression", "LogicalExpression", "AssignmentExpression"} ->
                       at(IF k = 1 THEN node.left ELSE node.right, i + 1)
                  [] node.t = "ConditionalExpression" ->
                       at(IF k = 0 THEN node.test ELSE IF k = 1 THEN node.consequent
                          ELSE node.alternate, i + 1)
                  [] node.t = "CallExpression" ->
                       at(IF k = 0 THEN node.callee ELSE node.arguments[k], i + 1)
                  [] node.t = "NewExpression" -> at(node.arguments[k], i + 1)
                  [] node.t = "MemberExpression" ->
                       at(IF k = 1 THEN node.object ELSE node.property, i + 1)
                  [] node.t = "ArrayExpression" -> at(node.elements[k], i + 1)
  IN at(prog[path[1]], 2)

\* C13 (as stated): pass 1 writes nothing to the side-table: no static type
\* and no coercion flag.
C13_Pass1WritesNothing == WritesOfPass(TRUE) = {}

\* C13 (amended): pass 1 sets no coercion flag, and the only static types it
\* writes are the function types of function declarations, arrow functions,
\* methods and constructors and the types of the operands of typeof.
C13_Pass1WritesFunctionTypes ==
  \A i \in WritesOfPass(TRUE) :
    /\ ~chk.wr[i].flag
    /\ \/ /\ NodeAt(chk.wr[i].node).t \in {"ArrowFunctionExpression", "FunctionDeclaration",
                                           "ClassMethod"}
          /\ chk.wr[i].type.k = "function"
       \/ /\ Len(chk.wr[i].node) > 1
          /\ LET parent == NodeAt(SubSeq(chk.wr[i].node, 1, Len(chk.wr[i].node) - 1))
             IN parent.t = "UnaryExpression" /\ parent.operator = "typeof"

C13_Witness ==
  /\ chk.firstPass /\ pc = "body" /\ idx = Len(prog)
  /\ \E i \in WritesOfPass(TRUE) : chk.wr[i].type.k = "function"
  /\ \E i \in WritesOfPass(TRUE) : chk.wr[i].type.k # "function"


IsAssignmentTarget(path) ==
  /\ Len(path) > 1 /\ path[Len(path)] = 1
  /\ NodeAt(path).t = "MemberExpression"
  /\ NodeAt(SubSeq(path, 1, Len(path) - 1)).t = "AssignmentExpression"

C15_AppendOnlyNoException ==
  [][ /\ Len(chk'.log) >= Len(chk.log)
      /\ SubSeq(chk'.log, 1, Len(chk.log)) = chk.log
      /\ pc' # "fatal"
      /\ (pc = "body" /\ idx < Len(prog))
           => (pc' = "propagated" \/ (pc' = "body" /\ idx' = idx + 1))
    ]_vars

C15_Fatal == pc = "fatal"


\* The import declaration of an ImportPrograms program, and the names bound
\* in the importing global scope.
ImportDecl ==
  CASE prog[1].t = "ImportDeclaration" -> prog[1]
    [] prog[1].t = "BlockStatement" -> prog[1].body[1]
    [] OTHER -> prog[1].body.body[1]
ImportNode ==
  CASE prog[1].t = "ImportDeclaration" -> <<1>>
    [] prog[1].t = "BlockStatement" -> <<1, 1>>
    [] OTHER -> <<1, 1, 1>>
ImportAtTopLevel == prog[1].t = "ImportDeclaration"
Requested(n) ==
  \E i \in 1..Len(ImportDecl.specifiers) :
    ImportDecl.specifiers[i] = Named(n)
SpecifierOf(n) ==
  ImportNode \o <<CHOOSE i \in 1..Len(ImportDecl.specifiers) : ImportDecl.specifiers[i] = Named(n)>>
Bound(n) == n \in DOMAIN chk.env[1].tab
ImportVisited == idx >= 1 /\ pc \in {"body", "thrown", "returned"}
LoggedAt(msg, node) == \E i \in 1..Len(chk.log) : chk.log[i] = [msg |-> msg, node |-> node]

\* C17: the importer is called only in pass 1 and only for an import
\* declaration in the global scope; an import declaration in another scope
\* logs an error and binds nothing; in pass 2 an import declaration has no
\* effect.
C17_ImporterOnlyAtTopLevel ==
  /\ \A i \in 1..Len(chk.called) : chk.called[i].firstPass /\ chk.called[i].global
  /\ (prog \in ImportPrograms /\ ~ImportAtTopLevel /\ ImportDecl.importKind = "value"
      /\ ImportVisited)
       => (ErrorAt(ImportNode) /\ ~Bound("x") /\ ~Bound("y") /\ ~Bound("z"))

\* C18: a symbol found in the importer's table is bound in the importing
\* global scope only if it is exported: a symbol that is not exported logs
\* 'declared but not exported' and is not bound, and a symbol missing from
\* the table logs 'is not found' and is not bound.
C18_OnlyExportedBound ==
  (prog \in ImportPrograms /\ ImportAtTopLevel /\ ImportDecl.importKind = "value"
   /\ chk.importer.k = "table" /\ ImportVisited) =>
    /\ \A n \in {"x", "y", "z"} :
         Bound(n) => (Requested(n) /\ lookup(<<chk.importer.tab>>, n) # NoInfo
                      /\ lookup(<<chk.importer.tab>>, n).isExported)
    /\ Requested("y") => LoggedAt("is declared but not exported in", SpecifierOf("y"))
    /\ Requested("z") => LoggedAt("is not found in", SpecifierOf("z"))
    /\ Requested("x") => (Bound("x") /\ chk.env[1].tab["x"] = lookup(<<chk.importer.tab>>, "x"))

\* C19: when the importer throws an ErrorLog its entries are added to the
\* log and nothing is bound; when it throws a string one entry with that
\* message at the import declaration is logged and nothing is bound; in both
\* cases the traversal goes on with the next statements; any other value
\* leaves typecheck with nothing added to the log.
C19_ImporterThrows ==
  (prog \in ImportPrograms /\ ImportDecl.importKind = "value" /\ idx >= 1) =>
    /\ chk.importer.k = "ErrorLog" =>
         /\ chk.log = chk.importer.log /\ pc # "propagated"
         /\ ~Bound("x") /\ ~Bound("y") /\ ~Bound("z")
         /\ (idx = Len(prog)) => Bound("w")
    /\ chk.importer.k = "string" =>
         /\ chk.log = <<[msg |-> chk.importer.msg, node |-> ImportNode]>> /\ pc # "propagated"
         /\ ~Bound("x") /\ ~Bound("y") /\ ~Bound("z")
         /\ (idx = Len(prog)) => Bound("w")
    /\ chk.importer.k = "other" =>
         /\ pc = "propagated" /\ idx = 1 /\ chk.log = <<>>
         /\ ~Bound("x") /\ ~Bound("y") /\ ~Bound("z") /\ ~Bound("w")

C19_Witness ==
  /\ prog \in ImportPrograms /\ ImportAtTopLevel /\ chk.importer.k = "ErrorLog"
  /\ Len(chk.log) = 2 /\ idx = Len(prog) /\ Bound("w") /\ pc = "thrown"


\* The constructor of class A in a ConstructorPrograms program, and what its
\* ConstructorChecker held when it finished.
CtorNode == <<2, 1, 2>>
CtorBody == prog[2].body.body[2].body.body
CtorStmt(j) == CtorNode \o <<1, j>>
Validated(v) ==
  \E k \in 1..Len(chk.validated) :
    chk.validated[k] = v /\ v.class = "A" /\ v.node = CtorNode
FlagOf(v, n) ==
  \E i \in 1..Len(v.properties) : v.properties[i].name = n /\ v.properties[i].flag
\* this.n = expr is a direct child statement of the body
DirectInit(n) == \E j \in 1..Len(CtorBody) : CtorBody[j] = Expr(ThisAssign("=", n))
\* this.n = expr occurs in a direct child statement of the body, outside
\* if, while, for, block, arrow function and conditional expression
ShallowInit(n) ==
  \E j \in 1..Len(CtorBody) :
    CtorBody[j] \in { Expr(ThisAssign("=", n)), Expr(Logical("||", Bool, ThisAssign("=", n))),
                      Let("a", None, ThisAssign("=", n)), InArgument(n) }

\* C12: when the constructor validator has visited the constructor, the
\* initialised flag of a declared property p is set if and only if the
\* constructor body contains this.p = expr at top level; the formula accepts
\* either reading of top level, the direct child statement and any place of
\* depth 1.
C12_InitialisedIffTopLevel ==
  prog \in ConstructorPrograms =>
    \A v \in { chk.validated[k] : k \in 1..Len(chk.validated) } :
      Validated(v) =>
        \/ \A n \in {"p", "q"} : FlagOf(v, n) <=> DirectInit(n)
        \/ \A n \in {"p", "q"} : FlagOf(v, n) <=> ShallowInit(n)

\* C20: the super-call flag is set at the end if and only if super(...) is
\* called at top level of the constructor body, and 'cannot call super()
\* here' is logged for every super call that is not at top level and for
\* every top-level super call after the first.
C20_SuperCallFlagAndErrors ==
  prog \in ConstructorPrograms =>
    \A v \in { chk.validated[k] : k \in 1..Len(chk.validated) } :
      Validated(v) =>
        /\ v.hasSuperCall <=> (\E j \in 1..Len(CtorBody) : CtorBody[j] = SuperCall)
        /\ \A j \in 1..Len(CtorBody) :
             (CtorBody[j] \in SuperForms \ {SuperCall})
               => LoggedAt("cannot call super() here", CtorStmt(j) \o <<1, 1>>)
        /\ \A j \in 1..Len(CtorBody) :
             (CtorBody[j] = SuperCall /\ \E i \in 1..(j - 1) : CtorBody[i] = SuperCall)
               => LoggedAt("cannot call super() here", CtorStmt(j) \o <<1>>)

\* what the validator does: the flag is set exactly by the assignments of
\* depth 1 that pass 1 visits
VisitedInit(n) ==
  \E j \in 1..Len(CtorBody) :
    CtorBody[j] \in { Expr(ThisAssign("=", n)), Expr(Logical("||", Bool, ThisAssign("=", n))),
                      Let("a", None, ThisAssign("=", n)) }
C12_FlagOfVisited ==
  prog \in ConstructorPrograms =>
    \A v \in { chk.validated[k] : k \in 1..Len(chk.validated) } :
      Validated(v) => \A n \in {"p", "q"} : FlagOf(v, n) <=> VisitedInit(n)
C20_Flag ==
  prog \in ConstructorPrograms =>
    \A v \in { chk.validated[k] : k \in 1..Len(chk.validated) } :
      Validated(v) =>
        /\ v.hasSuperCall <=> (\E j \in 1..Len(CtorBody) : CtorBody[j] = SuperCall)
        /\ \A j \in 1..Len(CtorBody) :
             LoggedAt("cannot call super() here", CtorStmt(j) \o <<1>>)
               <=> (CtorBody[j] = SuperCall /\ \E i \in 1..(j - 1) : CtorBody[i] = SuperCall)

\* the identifier u of an UnknownNames program
UnknownNode ==
  CASE prog[1].t = "ExpressionStatement" -> <<1, 1>>
    [] prog[1].t = "VariableDeclaration" -> <<1, 1, 1>>
    [] OTHER -> <<1, 1, 1, 1>>
UnknownNameIsAny ==
  prog \in UnknownNames =>
    /\ chk.firstPass => chk.log = <<>>
    /\ (idx >= 1 /\ prog[1].t = "ExpressionStatement") => chk.result = Any
    /\ (~chk.firstPass /\ idx >= 1 /\ pc # "visit") =>
         /\ chk.log = <<[msg |-> "unknown name", node |-> UnknownNode]>>
         /\ getStaticType(chk, UnknownNode) = Any
ForwardReferenceAccepted == prog \in ForwardReferences => chk.log = <<>>

\* C16: an identifier bound nowhere has type any in both passes, logs
\* nothing in pass 1 and logs 'unknown name' in pass 2; so a reference to a
\* top-level variable, function or class declared later in the file logs
\* nothing in either pass.
C16_UnknownNameForwardReference == UnknownNameIsAny /\ ForwardReferenceAccepted


\* C21: when a constructor has been validated the log holds 'super() is not
\* called' if the class extends a class other than the root object and no
\* top-level super call occurred, and 'uninitialized property: p' for every
\* property p of the class body whose initialised flag is not set, declared
\* before the constructor (p) or after it (q).
C21_EveryFaultReported ==
  prog \in ConstructorPrograms =>
    \A v \in { chk.validated[k] : k \in 1..Len(chk.validated) } :
      Validated(v) =>
        /\ (prog[2].superClass # None /\ ~v.hasSuperCall)
             => LoggedAt("super() is not called", CtorNode)
        /\ \A n \in {"p", "q"} :
             ~FlagOf(v, n) => LoggedAt("uninitialized property: " \o n, CtorNode)

\* what the code does: one error at most, the uninitialised property the
\* validator knows (p, declared before the constructor) before the missing
\* super call
C21_OneFaultReported ==
  prog \in ConstructorPrograms =>
    \A v \in { chk.validated[k] : k \in 1..Len(chk.validated) } :
      Validated(v) =>
        /\ LoggedAt("uninitialized property: p", CtorNode) <=> ~FlagOf(v, "p")
        /\ ~LoggedAt("uninitialized property: q", CtorNode)
        /\ LoggedAt("super() is not called", CtorNode)
             <=> (prog[2].superClass # None /\ ~v.hasSuperCall /\ FlagOf(v, "p"))


\* The function f of a ReturnPrograms program: its return statements in
\* traversal order (those of a nested arrow function are not its own), and
\* the type of a return argument.
FNode == <<3>>
FBody == prog[3].body.body
RECURSIVE ReturnsIn(_, _)
ReturnsIn(stmt, path) ==
  CASE stmt.t = "ReturnStatement" -> <<[node |-> path, argument |-> stmt.argument]>>
    [] stmt.t = "IfStatement" -> ReturnsIn(stmt.consequent, path \o <<1>>)
    [] stmt.t = "WhileStatement" -> ReturnsIn(stmt.body, path \o <<1>>)
    [] stmt.t = "BlockStatement" ->
         (LET RECURSIVE from(_)
              from(j) == IF j > Len(stmt.body) THEN <<>>
                         ELSE ReturnsIn(stmt.body[j], path \o <<j>>) \o from(j + 1)
          IN from(1))
    [] OTHER -> <<>>
Returns == ReturnsIn(prog[3].body, FNode \o <<1>>)
ArgumentType(a) ==
  CASE a = One -> Integer
    [] a = Str -> StringT
    [] a = NullLit -> Null
    [] a = Id("d") -> Any
    [] a = Id("z") -> OptionalType(Integer)
\* the slot after the first return
Slot ==
  IF Returns = <<>> \/ Returns[1].argument = None THEN Void
  ELSE ArgumentType(Returns[1].argument)
\* the error of a later return
ReturnError(r) ==
  IF r.argument = None
    THEN (IF Slot = Void THEN <<>>
          ELSE <<[msg |-> "a non-void function must return a value", node |-> r.node]>>)
  ELSE IF isConsistent(ArgumentType(r.argument), Slot)
          \/ isSubtype(ArgumentType(r.argument), Slot) THEN <<>>
  ELSE <<[msg |-> "does not match type", node |-> r.node]>>
RECURSIVE ReturnErrors(_)
ReturnErrors(k) ==
  IF k > Len(Returns) THEN <<>> ELSE ReturnError(Returns[k]) \o ReturnErrors(k + 1)

SecondDeclarator ==
  CASE prog[1].t = "VariableDeclaration" -> <<2, 1>>
    [] prog[1].t = "BlockStatement" -> <<1, 2, 1>>
    [] OTHER -> <<1, 1, 2, 1>>
GlobalBinding(s, n) == IF n \in DOMAIN s.env[1].tab THEN s.env[1].tab[n] ELSE NoInfo

\* C23: declaring a name twice in one scope (global, function, block) makes
\* typecheck fail with 'has already been declared'; a declaration of the
\* name in a nested block or function shadows the outer binding without an
\* error; and the second declaration never changes the type or the flags of
\* the binding that exists.
C23_DuplicateDeclaration ==
  [][ /\ prog \in SameScopePrograms =>
           /\ pc' # "returned"
           /\ (idx' = Len(prog) /\ pc' = "body")
                => LoggedAt("has already been declared", SecondDeclarator)'
      /\ prog \in ShadowPrograms => chk'.log = <<>>
      /\ (prog \in SameScopePrograms \cup ShadowPrograms /\ GlobalBinding(chk, "a") # NoInfo)
           => GlobalBinding(chk, "a")' = GlobalBinding(chk, "a")
    ]_vars

\* what the code does: apart from a global const a = () => ..., which goes
\* through functionDeclarationPass1 and marks the binding it finds as
\* constant, the second declaration is rejected and changes nothing
SecondIsConstFunction ==
  /\ prog[1].t = "VariableDeclaration" /\ prog[2].t = "VariableDeclaration"
  /\ prog[2].declarations[1].init.t = "ArrowFunctionExpression" /\ prog[2].kind = "const"
C23_DeclaratorKeepsBinding ==
  [][ /\ (prog \in SameScopePrograms /\ ~SecondIsConstFunction) =>
           /\ pc' # "returned"
           /\ (idx' = Len(prog) /\ pc' = "body")
                => LoggedAt("has already been declared", SecondDeclarator)'
           /\ GlobalBinding(chk, "a") # NoInfo
                => GlobalBinding(chk, "a")' = GlobalBinding(chk, "a")
      /\ (prog \in SameScopePrograms /\ SecondIsConstFunction) =>
           /\ pc' # "returned"
           /\ (idx' = Len(prog) /\ pc' = "body")
                => LoggedAt("function has been already declared", <<2, 1, 1>>)'
           /\ GlobalBinding(chk, "a") # NoInfo
                => GlobalBinding(chk, "a")' = [GlobalBinding(chk, "a") EXCEPT !.isConst = TRUE]
      /\ prog \in ShadowPrograms =>
           /\ chk'.log = <<>>
           /\ GlobalBinding(chk, "a") # NoInfo
                => GlobalBinding(chk, "a")' = GlobalBinding(chk, "a")
    ]_vars


\* The target identifier of the assignment of a ConstAssignPrograms program
\* and the declaration its name resolves to: the declaration of k in the
\* global scope, or the local one when the assignment follows it.
RECURSIVE AssignTargets(_, _)
AssignTargets(node, path) ==
  CASE node.t = "ExpressionStatement" ->
         (IF node.expression.t \in {"AssignmentExpression", "UpdateExpression"}
            THEN {path \o <<1, 1>>} ELSE {})
    [] node.t = "BlockStatement" ->
         UNION { AssignTargets(node.body[j], path \o <<j>>) : j \in 1..Len(node.body) }
    [] node.t = "FunctionDeclaration" -> AssignTargets(node.body, path \o <<1>>)
    [] OTHER -> {}
TargetNode == CHOOSE p \in UNION { AssignTargets(prog[i], <<i>>) : i \in 1..Len(prog) } : TRUE
DeclaresK(d) ==
  \/ d.t = "VariableDeclaration" /\ d.declarations[1].id.name = "k"
  \/ d.t = "FunctionDeclaration" /\ d.id.name = "k"
ResolvedDecl ==
  IF Len(prog) = 1 THEN prog[1].body[1]
  ELSE IF DeclaresK(prog[1]) THEN prog[1] ELSE prog[2]
\* the assignment precedes the declaration: the name resolves in pass 2 only
AssignFirst == Len(prog) = 2 /\ ~DeclaresK(prog[1])
TargetIsConst == ResolvedDecl.t = "VariableDeclaration" /\ ResolvedDecl.kind = "const"
TargetIsFunction ==
  \/ ResolvedDecl.t = "FunctionDeclaration"
  \/ /\ Len(prog) = 2 /\ TargetIsConst
     /\ ResolvedDecl.declarations[1].init.t = "ArrowFunctionExpression"

\* C24: an assignment (simple or compound) or ++/-- whose target identifier
\* resolves to a constant logs 'assignment to constant variable', and to a
\* top-level function logs 'assignment to top-level function', in the pass
\* in which the name resolves; typecheck never accepts such a program,
\* whether the assignment comes after the declaration or before it.
C24_ConstAssignRejected ==
  prog \in ConstAssignPrograms =>
    /\ pc \notin {"fatal", "propagated"}
    /\ (TargetIsConst \/ TargetIsFunction) => pc # "returned"
    /\ (idx = Len(prog) /\ pc \in {"body", "thrown"} /\ (chk.firstPass => ~AssignFirst)) =>
         /\ TargetIsConst <=> LoggedAt("assignment to constant variable", TargetNode)
         /\ TargetIsFunction <=> LoggedAt("assignment to top-level function", TargetNode)
    /\ \A i \in 1..Len(chk.log) :
         /\ chk.log[i].msg = "assignment to constant variable"
              => (TargetIsConst /\ chk.log[i].node = TargetNode)
         /\ chk.log[i].msg = "assignment to top-level function"
              => (TargetIsFunction /\ chk.log[i].node = TargetNode)

\* an assignment that precedes the declaration of a global constant is
\* rejected by pass 2
C24_Witness ==
  /\ prog \in ConstAssignPrograms /\ prog[1].t = "ExpressionStatement"
  /\ prog[1].expression.t = "UpdateExpression" /\ TargetIsConst /\ ~TargetIsFunction
  /\ pc = "thrown" /\ ~chk.firstPass
  /\ LoggedAt("assignment to constant variable", TargetNode)


\* Integer syntax: a string of decimal digits, or 0x / 0X and hexadecimal
\* digits.
DecimalDigits == {"0", "1", "2", "3", "4", "5", "6", "7", "8", "9"}
HexDigits == DecimalDigits \cup {"A", "B", "C", "D", "E", "F", "a", "b", "c", "d", "e", "f"}
IsIntegerSyntax(raw) ==
  \/ \A i \in 1..Len(raw) : raw[i] \in DecimalDigits
  \/ /\ Len(raw) >= 3 /\ raw[1] = "0" /\ raw[2] \in {"x", "X"}
     /\ \A i \in 3..Len(raw) : raw[i] \in HexDigits
LiteralRaw == prog[1].expression.raw

\* C25: a numeric literal has type integer exactly when its raw text is
\* integer syntax (decimal digits or a 0x/0X hexadecimal literal), and type
\* float otherwise (a fraction part or an exponent: 1.5, 1e5, 2E3).
C25_NumericLiteralType ==
  (prog \in LiteralPrograms /\ idx = 1 /\ pc # "visit") =>
    /\ chk.log = <<>>
    /\ chk.result = IF IsIntegerSyntax(LiteralRaw) THEN Integer ELSE Float
    /\ ~chk.firstPass => getStaticType(chk, <<1, 1>>) = chk.result

\* what the code does: a literal made of hexadecimal digits and x only is an
\* integer, so an exponent without sign or fraction (1e5, 2E3) is an integer
C25_TypeByCharacters ==
  (prog \in LiteralPrograms /\ idx = 1 /\ pc # "visit") =>
    /\ chk.log = <<>>
    /\ chk.result = IF \A i \in 1..Len(LiteralRaw) : LiteralRaw[i] \in HexDigits \cup {"x", "X"}
                      THEN Integer ELSE Float


\* The operand rule of a compound assignment operator, for the types l and
\* r of the two sides.
ArithmeticAssignOps == {"+=", "-=", "*=", "/="}
BitAssignOps == {"|=", "^=", "&=", "<<=", ">>=", ">>>="}
UnsupportedAssignOps == {"||=", "&&=", "??=", "**="}
CompoundRule(op, l, r) ==
  CASE op \in ArithmeticAssignOps -> (isNumeric(l) \/ l = Any) /\ (isNumeric(r) \/ r = Any)
    [] op = "%=" -> (l = Integer \/ l = Any) /\ (r = Integer \/ r = Any)
    [] op \in BitAssignOps -> l = Integer /\ r = Integer
    [] OTHER -> FALSE
CompoundChecked ==
  /\ prog \in IdAssignPrograms \cup ElemAssignPrograms
  /\ AssignOperator # "=" /\ idx = 3 /\ pc # "visit"

\* C26: a compound assignment to an identifier or to a member/element is
\* accepted iff: for += -= *= /= each side is numeric or any; for %= each
\* side is integer or any; for |= ^= &= <<= >>= >>>= both sides are integer;
\* and ||= &&= ??= **= always log 'not supported operator'.
C26_CompoundAssignment ==
  CompoundChecked =>
    /\ ~ErrorAt(AssignNode) <=> CompoundRule(AssignOperator, LeftType, RightType)
    /\ AssignOperator \in UnsupportedAssignOps
         => LoggedAt("not supported operator", AssignNode)

\* what the code does: >>>= is not supported on an identifier, and on a
\* member or element only += -= *= /= are supported
C26_RuleByTarget ==
  CompoundChecked =>
    /\ prog \in IdAssignPrograms =>
         IF AssignOperator \in UnsupportedAssignOps \cup {">>>="}
           THEN LoggedAt("not supported operator", AssignNode)
           ELSE ~ErrorAt(AssignNode) <=> CompoundRule(AssignOperator, LeftType, RightType)
    /\ prog \in ElemAssignPrograms =>
         IF AssignOperator \notin ArithmeticAssignOps
           THEN LoggedAt("not supported operator", AssignNode)
           ELSE ~ErrorAt(AssignNode) <=> CompoundRule(AssignOperator, LeftType, RightType)


\* Class A of a DefaultConstructorPrograms program: the number of its
\* properties, and the constructor of its superclass.
ClassANode == <<2>>
DeclaredInA == Len(prog[2].body.body)
SuperConstructor == prog[1].body.body
ExtendsB == prog[2].superClass # None
\* the superclass has a constructor, written or default, without parameters
SuperTakesNoParameters ==
  ExtendsB /\ (SuperConstructor = <<>> \/ Len(SuperConstructor[1].params) = 0)
MissingLogged == LoggedAt("a constructor is missing", ClassANode)
ClassAVisited ==
  prog \in DefaultConstructorPrograms /\ idx = 2 /\ pc \in {"body", "thrown", "returned"}

\* C27: a class without an explicit constructor logs no 'a constructor is
\* missing' when it declares no property; when it declares properties it
\* logs the error unless the constructor of its superclass takes no
\* parameters.
C27_MissingConstructor ==
  ClassAVisited =>
    /\ DeclaredInA = 0 => ~MissingLogged
    /\ DeclaredInA >= 1 => (MissingLogged <=> ~SuperTakesNoParameters)

\* what the code does: the error is logged when the class declares a
\* property, and when the constructor of its superclass takes parameters
C27_MissingByEitherTest ==
  ClassAVisited =>
    (MissingLogged <=>
       (DeclaredInA >= 1 \/ (ExtendsB /\ SuperConstructor # <<>>
                             /\ Len(SuperConstructor[1].params) > 0)))


\* The functions of the top level of the program: function declarations,
\* const arrow functions, and arrow functions passed as arguments of a call
\* statement.
TopLevelFunctionNodes ==
  { <<i>> : i \in { j \in 1..Len(prog) : prog[j].t = "FunctionDeclaration" } }
  \cup { <<i, 1, 1>> : i \in { j \in 1..Len(prog) : prog[j].t = "VariableDeclaration"
                                                     /\ isConstFunction(prog[j], chk) } }
ArgumentArrowNodes ==
  UNION { { <<i, 1, k>> : k \in { a \in 1..Len(prog[i].expression.arguments) :
                                    prog[i].expression.arguments[a].t = "ArrowFunctionExpression" } } :
          i \in { j \in 1..Len(prog) : prog[j].t = "ExpressionStatement"
                                       /\ prog[j].expression.t = "CallExpression" } }

\* C28: when pass 1 has ended with an empty log, every function declaration
\* and arrow function has its function type recorded, also an arrow function
\* passed as an argument to a function declared later in the file, and pass 2
\* never throws a fatal 'is not recorded' error.
C28_Pass2FindsFunctionTypes ==
  ~chk.firstPass =>
    /\ pc # "fatal" /\ ~chk.fatal
    /\ \A n \in TopLevelFunctionNodes \cup ArgumentArrowNodes :
         getStaticType(chk, n).k = "function"

\* what the code does: the functions pass 1 visits are recorded; pass 2 is
\* fatal exactly for the arrow functions in the arguments of a call whose
\* callee is declared later, which pass 1 does not visit
SkippedArrow ==
  /\ prog \in ForwardCallPrograms
  /\ prog[1].expression.arguments[1].t \in {"ArrowFunctionExpression", "ArrayExpression"}
C28_FatalForSkippedArrow ==
  /\ ~chk.firstPass => \A n \in TopLevelFunctionNodes : getStaticType(chk, n).k = "function"
  /\ pc = "fatal" => (SkippedArrow /\ ~chk.firstPass /\ idx = 1 /\ chk.log = <<>>)
  /\ (SkippedArrow /\ ~chk.firstPass /\ idx >= 1 /\ pc # "visit") => pc = "fatal"


\* C29: for a builder of unit size U, between the calls of load, jump and
\* reset lastUnit.length + lastUnitRemain = U, and every buffer of the
\* array generate returns has at most U bytes.
C29_UnitsWithinSize ==
  /\ frame.op = "none"
       => Len(builder.lastUnit) + builder.lastUnitRemain = builder.unitSize
  /\ \A i \in 1..Len(frame.result) : Len(frame.result[i]) <= builder.unitSize

\* what the code does: load keeps the bookkeeping and the unit size as long
\* as neither jump nor reset, which add their header without counting it,
\* has been called since the last generate
C29_LoadsKeepBookkeeping ==
  frame.onlyLoads =>
    /\ frame.op = "none"
         => Len(builder.lastUnit) + builder.lastUnitRemain = builder.unitSize
    /\ Len(builder.lastUnit) <= builder.unitSize
    /\ \A i \in 1..Len(builder.units) : Len(builder.units[i]) <= builder.unitSize

\* The commands the last call of load has added to the buffers.
Loading == frame.op = "load"
LoadReturned == frame.op = "none" /\ frame.last = "load"
Emitted == SubSeq(allCommands(builder), frame.before + 1, Len(allCommands(builder)))
RECURSIVE Bodies(_, _)
Bodies(cmds, k) == IF k = 0 THEN <<>> ELSE Bodies(cmds, k - 1) \o cmds[k].body
ChunksEqualData ==
  /\ \A k \in 1..Len(Emitted) :
       /\ Emitted[k].cmd = "LOAD"
       /\ Emitted[k].address = frame.address + Len(Bodies(Emitted, k - 1))
  /\ Bodies(Emitted, Len(Emitted)) = frame.data

\* C30: a call of load returns, for every positive unit size and every data
\* length, and when it has returned the LOAD commands it added carry
\* consecutive chunks of data that together are data, the address of each
\* being address plus the offset of its chunk.
C30_LoadTerminatesWithChunks ==
  /\ Loading ~> LoadReturned
  /\ [](LoadReturned => ChunksEqualData)

\* what the code does: a call that returns has added the chunks of data; a
\* call returns when the unit has room for a header and four bytes (unit
\* size 13 or more); with a smaller unit the loop pushes a unit in every
\* iteration without consuming data
C30_ChunksOnReturn == LoadReturned => ChunksEqualData
C30_TerminatesForLargeUnits == (Loading /\ builder.unitSize >= 13) ~> LoadReturned
C30_ExhaustedBySmallUnits == frame.op = "exhausted" => builder.unitSize <= 12
C30_NoProgress ==
  [][ (Loading /\ Loading' /\ builder.unitSize <= 12 /\ builder.lastUnit = <<>>)
        => (frame' = frame /\ builder'.lastUnit = <<>>
            /\ builder'.lastUnitRemain = builder.lastUnitRemain
            /\ Len(builder'.units) = Len(builder.units) + 1) ]_vars

====
